---- MODULE Spec2Model ----
(***************************************************************************)
(* Model of the Uniplex MCP server's local permission gate:                *)
(*   - InMemoryRateLimiter and verifyLocally  (verification module)        *)
(*   - CacheManager getters/updates           (cache module)               *)
(*   - SessionManager and handleCallTool      (session/server modules)     *)
(*                                                                         *)
(* JavaScript values are encoded as follows.  An optional object or list   *)
(* is a sequence of length 0 (undefined/null) or 1 (the value).  An        *)
(* optional string is the string itself or Undefined.  A constraint or     *)
(* context value is a record [type, val] carrying its typeof.  A Map or    *)
(* plain object is a function whose DOMAIN is its key set.                 *)
(***************************************************************************)
EXTENDS Integers, Sequences, FiniteSets, TLC

VARIABLES
    now,             \* Date.now(), in abstract milliseconds
    limits,          \* InMemoryRateLimiter.limits : action -> [max, windowMs]
    buckets,         \* InMemoryRateLimiter.buckets: key -> [count, resetAt]
    catalog,         \* CacheManager.state.catalog (None until loaded)
    revocationList,  \* CacheManager.state.revocationList
    issuerKeys,      \* CacheManager.state.issuerKeys
    cachedAt,        \* CacheManager.state.revocationCachedAt and issuerKeysCachedAt
    sessions,        \* SessionManager.sessions: session id -> Session
    calls,           \* the asynchronous calls in flight: caller -> its frame
    config,          \* the server's configuration: cache settings and safe-default issuance
    upstream,        \* what the Uniplex API serves: catalog version, revocations, issuer keys
    refresh,         \* CacheManager background refresh: interval timers set, fetches in flight
    anonymousPermits,\* anonymous tool calls the server has permitted at the instant `now`
    last             \* the call in progress of returning: inputs, result, effects

vars == <<now, limits, buckets, catalog, revocationList, issuerKeys, cachedAt, sessions,
          calls, config, upstream, refresh, anonymousPermits, last>>

-----------------------------------------------------------------------------
(* Bounds of the model *)

MaxTime == 2        \* the clock runs over 0..MaxTime
MaxLimit == 2       \* registered rate limits have max in 0..MaxLimit
MaxDefects == 2     \* a call's inputs differ from the baseline call in at most this many fields
MaxPin == 1         \* catalog version pins range over 0..MaxPin
MaxCount == 3       \* direct limiter increments stop at this bucket count
WindowMs == 2       \* the window of a registered rate limit, in clock ticks
MaxAnonymous == 2   \* anonymous permits counted at one instant

-----------------------------------------------------------------------------
(* Encoding of JavaScript values *)

Undefined == "undefined"
None == << >>
Some(v) == << v >>
IsSome(o) == Len(o) = 1
Val(o) == o[1]

Num(n) == [type |-> "number", val |-> n]
Bool(b) == [type |-> "boolean", val |-> IF b THEN 1 ELSE 0]
EmptyMap == [k \in {} |-> Num(0)]

Min(a, b) == IF a <= b THEN a ELSE b

-----------------------------------------------------------------------------
(* Constraint keys and the constraint type registry *)

KCost == "core:cost:max_per_action"
KApproval == "core:approval:required"
KAmount == "amount_canonical"

\* CONSTRAINT_TYPES[key]?.type
ConstraintTypeOf(key) ==
    CASE key \in {"core:rate:max_per_minute", "core:rate:max_per_hour",
                  "core:rate:max_per_day", "core:cost:max_per_action",
                  "core:cost:max_cumulative"} -> "limit"
      [] key \in {"core:pricing:per_call_cents", "core:pricing:per_minute_cents",
                  "core:pricing:model", "core:pricing:currency",
                  "core:pricing:free_tier_calls", "core:sla:uptime_basis_points",
                  "core:sla:response_time_ms", "core:sla:p99_response_ms",
                  "core:platform_fee:basis_points"} -> "term"
      [] OTHER -> Undefined

-----------------------------------------------------------------------------
(* InMemoryRateLimiter *)

\* setLimit(action, max, windowMs): the limits map afterwards
setLimit(lim, action, max, windowMs) ==
    [a \in DOMAIN lim \cup {action} |->
        IF a = action THEN [max |-> max, windowMs |-> windowMs] ELSE lim[a]]

\* getBucketKey: `${action}:${passportId}` when passportId is truthy, else action
getBucketKey(action, passportId) ==
    IF passportId # Undefined /\ passportId # ""
    THEN action \o ":" \o passportId
    ELSE action

\* check with the window still closed at the instant resetAt
check_resetStrictlyPassed(lim, bk, t, action, passportId) ==
    IF action \notin DOMAIN lim THEN TRUE
    ELSE LET key == getBucketKey(action, passportId)
         IN  IF key \notin DOMAIN bk \/ bk[key].resetAt < t
             THEN TRUE
             ELSE bk[key].count < lim[action].max

\* check(action, passportId) against the limiter state (lim, bk) at time t
check(lim, bk, t, action, passportId) ==
    IF action \notin DOMAIN lim THEN TRUE
    ELSE LET key == getBucketKey(action, passportId)
         IN  IF key \notin DOMAIN bk \/ bk[key].resetAt <= t
             THEN TRUE
             ELSE bk[key].count < lim[action].max

increment_countsTwice(lim, bk, t, action, passportId) ==
    IF action \notin DOMAIN lim THEN bk
    ELSE LET key == getBucketKey(action, passportId)
             fresh == key \notin DOMAIN bk \/ bk[key].resetAt <= t
             bucket == IF fresh
                       THEN [count |-> 0, resetAt |-> t + lim[action].windowMs]
                       ELSE bk[key]
         IN  [k \in DOMAIN bk \cup {key} |->
                 IF k = key THEN [bucket EXCEPT !.count = @ + 2] ELSE bk[k]]

\* increment(action, passportId): the buckets map afterwards
increment(lim, bk, t, action, passportId) ==
    IF action \notin DOMAIN lim THEN bk
    ELSE LET key == getBucketKey(action, passportId)
             fresh == key \notin DOMAIN bk \/ bk[key].resetAt <= t
             bucket == IF fresh
                       THEN [count |-> 0, resetAt |-> t + lim[action].windowMs]
                       ELSE bk[key]
         IN  [k \in DOMAIN bk \cup {key} |->
                 IF k = key THEN [bucket EXCEPT !.count = @ + 1] ELSE bk[k]]

\* reset(action, passportId): the buckets map afterwards
reset(bk, action, passportId) ==
    LET key == getBucketKey(action, passportId)
    IN  [k \in DOMAIN bk \ {key} |-> bk[k]]

-----------------------------------------------------------------------------
(* Signature verification *)

\* A signature or key that is no Ed25519 material: hexToBytes or ed.verify
\* throws on it inside the try block
MalformedHex == "malformed"

\* verifySignatureSync whose exception path reports success
verifySignatureSync_acceptsAll(passport, issuerPublicKey) == TRUE

\* verifySignatureSync: Ed25519 verification of the canonical payload.  A
\* signature is represented by the name of the public key under which it
\* verifies ("forged" verifies under none); any exception yields false.
verifySignatureSync(passport, issuerPublicKey) ==
    IF passport.signature = MalformedHex \/ issuerPublicKey = MalformedHex
    THEN FALSE
    ELSE passport.signature = issuerPublicKey

-----------------------------------------------------------------------------
(* Constraint validation and merge *)

\* Number(contextValue) is NaN for a non-numeric string (type "text")
IsNaN(v) == v.type = "text"

\* validateConstraints(passportConstraints, context).valid
validateConstraints(passportConstraints, context) ==
    \A key \in DOMAIN passportConstraints :
        \/ key \notin DOMAIN context
        \/ ~(ConstraintTypeOf(key) = "limit" /\ passportConstraints[key].type = "number")
        \/ /\ ~IsNaN(context[key])
           /\ ~(context[key].val > passportConstraints[key].val)

\* mergeConstraints letting the credential's value stand for every key it holds
mergeConstraints_passportWins(catalogConstraints, passportConstraints) ==
    [k \in DOMAIN catalogConstraints \cup DOMAIN passportConstraints |->
        IF k \in DOMAIN passportConstraints THEN passportConstraints[k]
        ELSE catalogConstraints[k]]

\* mergeConstraints(catalogConstraints, passportConstraints)
mergeConstraints(catalogConstraints, passportConstraints) ==
    LET passKept == {k \in DOMAIN passportConstraints : ConstraintTypeOf(k) # "term"}
    IN  [k \in DOMAIN catalogConstraints \cup passKept |->
            IF k \notin DOMAIN passportConstraints THEN catalogConstraints[k]
            ELSE IF ConstraintTypeOf(k) = "limit" /\ passportConstraints[k].type = "number"
            THEN IF k \in DOMAIN catalogConstraints /\ catalogConstraints[k].type = "number"
                 THEN Num(Min(catalogConstraints[k].val, passportConstraints[k].val))
                 ELSE passportConstraints[k]
            ELSE IF ConstraintTypeOf(k) = "term" THEN catalogConstraints[k]
            ELSE passportConstraints[k]]

\* evaluateConstraints of the protocol SDK: categories Temporal, Scope, Rate,
\* Cost, Approval, Data, aggregated under BLOCK > SUSPEND > PERMIT.  Only the
\* Cost and Approval categories have keys in this model.
evaluateConstraints(constraints, action, costCents) ==
    LET cost == IF /\ IsSome(costCents)
                   /\ KCost \in DOMAIN constraints
                   /\ constraints[KCost].type = "number"
                   /\ Val(costCents) > constraints[KCost].val
                THEN "BLOCK" ELSE "PERMIT"
        approval == IF /\ KApproval \in DOMAIN constraints
                       /\ constraints[KApproval] = Bool(TRUE)
                    THEN "SUSPEND" ELSE "PERMIT"
        decision == IF cost = "BLOCK" THEN "BLOCK"
                    ELSE IF approval = "SUSPEND" THEN "SUSPEND"
                    ELSE "PERMIT"
    IN  [decision |-> decision,
         reason_codes |-> IF decision = "SUSPEND" THEN Some(<<"approval_required">>)
                          ELSE IF decision = "BLOCK" THEN Some(<<"cost_exceeded">>)
                          ELSE None,
         obligations |-> IF decision = "SUSPEND" THEN <<"require_approval">> ELSE << >>]

\* evaluateAnonymousAccess of the protocol SDK, for a call without passport:
\* allowed iff the policy lists the action and the rate limiter admits the
\* source.  A limiter created for the call (None) has counted nothing.
evaluateAnonymousAccess(action, policy, rateLimiter) ==
    [allowed |-> /\ policy.enabled
                 /\ action \in policy.allowed_actions
                 /\ (IsSome(rateLimiter) => Val(rateLimiter).admits)]

-----------------------------------------------------------------------------
(* Catalog version resolution and the passport index *)

\* resolveCatalogVersion deprecating also the pin equal to min_compatible_version
resolveCatalogVersion_minDeprecated(cat, passport) ==
    IF ~IsSome(passport.catalog_version_pin) THEN cat.current
    ELSE LET pins == Val(passport.catalog_version_pin)
         IN  IF cat.gate_id \notin DOMAIN pins THEN cat.current
             ELSE IF pins[cat.gate_id] <= cat.min_compatible_version
             THEN [deprecated |-> TRUE]
             ELSE IF pins[cat.gate_id] \in DOMAIN cat.versions
             THEN cat.versions[pins[cat.gate_id]]
             ELSE cat.current

\* resolveCatalogVersion(catalog, passport)
resolveCatalogVersion(cat, passport) ==
    IF ~IsSome(passport.catalog_version_pin) THEN cat.current
    ELSE LET pins == Val(passport.catalog_version_pin)
         IN  IF cat.gate_id \notin DOMAIN pins THEN cat.current
             ELSE IF pins[cat.gate_id] < cat.min_compatible_version
             THEN [deprecated |-> TRUE]
             ELSE IF pins[cat.gate_id] \in DOMAIN cat.versions
             THEN cat.versions[pins[cat.gate_id]]
             ELSE cat.current

\* buildPassportIndex: claimsByKey[key] is the last claim carrying that key
buildPassportIndex(passport) ==
    LET perms == passport.permissions
        keys == {perms[i].permission_key : i \in DOMAIN perms}
        lastIndex(k) == CHOOSE i \in DOMAIN perms :
                            /\ perms[i].permission_key = k
                            /\ \A j \in DOMAIN perms :
                                   perms[j].permission_key = k => j <= i
    IN  [f \in DOMAIN passport \cup {"claimsByKey"} |->
            IF f = "claimsByKey" THEN [k \in keys |-> perms[lastIndex(k)]]
            ELSE passport[f]]

-----------------------------------------------------------------------------
(* verifyLocally: the hot path *)

NoExtras == [upgrade_template |-> Undefined, constraint_decision |-> Undefined,
             reason_codes |-> None, obligations |-> None]

Block == [NoExtras EXCEPT !.constraint_decision = "BLOCK"]

\* deny(code, message, extras)
deny(code, message, extras) ==
    [allowed |-> FALSE,
     decision |-> "deny",
     constraint_decision |-> extras.constraint_decision,
     reason_codes |-> extras.reason_codes,
     obligations |-> extras.obligations,
     denial |-> Some([code |-> code, message |-> message,
                      upgrade_template |-> extras.upgrade_template]),
     effective_constraints |-> None,
     confident |-> TRUE]

\* The permit returned for an anonymous call
AnonymousPermit ==
    [allowed |-> TRUE, decision |-> "permit", constraint_decision |-> Undefined,
     reason_codes |-> None, obligations |-> None, denial |-> None,
     effective_constraints |-> None, confident |-> TRUE]

\* The permit returned when every step passed
Permit(effectiveConstraints) ==
    [allowed |-> TRUE, decision |-> "permit", constraint_decision |-> "PERMIT",
     reason_codes |-> None, obligations |-> None, denial |-> None,
     effective_constraints |-> Some(effectiveConstraints), confident |-> TRUE]

\* Step 1 with the enabled flag of the policy deciding alone
verifyAnonymous_enabledIsEnough(params) ==
    IF IsSome(params.anonymousPolicy) /\ Val(params.anonymousPolicy).enabled
    THEN AnonymousPermit
    ELSE deny("passport_missing", "No passport in session", NoExtras)

\* Step 1 of verifyLocally: no passport presented
verifyAnonymous(params) ==
    IF IsSome(params.anonymousPolicy) /\ Val(params.anonymousPolicy).enabled
    THEN LET policy == Val(params.anonymousPolicy)
             anonResult == evaluateAnonymousAccess(params.action, policy,
                                                   params.anonymousRateLimiter)
         IN  IF anonResult.allowed THEN AnonymousPermit
             ELSE deny("passport_missing",
                       IF policy.upgrade_message # Undefined
                       THEN policy.upgrade_message
                       ELSE "Get a passport for full access and higher rate limits",
                       NoExtras)
    ELSE deny("passport_missing", "No passport in session", NoExtras)

\* What verifyLocally leaves behind when it throws instead of returning:
\* Object.entries(undefined) in mergeConstraints is a TypeError
TypeErrorThrown == [thrown |-> "TypeError"]

\* { ...catalogEntry.constraints }: the empty object when the entry has none
SpreadOf(catalogEntry) ==
    IF "constraints" \in DOMAIN catalogEntry THEN catalogEntry.constraints ELSE EmptyMap

\* Steps 8 and 9 with every decision other than PERMIT denied as a violation
verifyConstraintsAndRate_suspendAsBlock(params, passport, catalogEntry, passportPermission, lim, bk, t) ==
    LET effectiveConstraints == mergeConstraints(catalogEntry.constraints,
                                                 passportPermission.constraints)
        costCents == IF KAmount \in DOMAIN params.context
                        /\ params.context[KAmount].type = "number"
                     THEN Some(params.context[KAmount].val) ELSE None
        celResult == evaluateConstraints(effectiveConstraints, params.action, costCents)
    IN  IF celResult.decision # "PERMIT"
        THEN [result |-> deny("constraint_violated", "Constraint violation", Block),
              buckets |-> bk]
        ELSE IF ~validateConstraints(passportPermission.constraints, params.context)
        THEN [result |-> deny("constraint_violated", "Constraint validation failed", Block),
              buckets |-> bk]
        ELSE IF ~check(lim, bk, t, params.action, passport.passport_id)
        THEN [result |-> deny("rate_limited", "Rate limit exceeded", Block),
              buckets |-> bk]
        ELSE [result |-> Permit(effectiveConstraints),
              buckets |-> increment(lim, bk, t, params.action, passport.passport_id)]

\* Steps 8 and 9 of verifyLocally: constraint enforcement, then the rate limit.
\* Yields the result and the limiter's buckets afterwards.
verifyConstraintsAndRate(params, passport, catalogEntry, passportPermission, lim, bk, t) ==
    IF "constraints" \notin DOMAIN passportPermission
    THEN [result |-> TypeErrorThrown, buckets |-> bk]
    ELSE
    LET effectiveConstraints == mergeConstraints(SpreadOf(catalogEntry),
                                                 passportPermission.constraints)
        costCents == IF KAmount \in DOMAIN params.context
                        /\ params.context[KAmount].type = "number"
                     THEN Some(params.context[KAmount].val) ELSE None
        celResult == evaluateConstraints(effectiveConstraints, params.action, costCents)
    IN  IF celResult.decision = "BLOCK"
        THEN [result |-> deny("constraint_violated", "Constraint violation", Block),
              buckets |-> bk]
        ELSE IF celResult.decision = "SUSPEND"
        THEN [result |-> deny("approval_required",
                              "Action requires approval before proceeding",
                              [upgrade_template |-> Undefined,
                               constraint_decision |-> "SUSPEND",
                               reason_codes |-> IF IsSome(celResult.reason_codes)
                                                THEN celResult.reason_codes
                                                ELSE Some(<<"approval_required">>),
                               obligations |-> IF Len(celResult.obligations) > 0
                                               THEN Some(celResult.obligations)
                                               ELSE Some(<<"require_approval">>)]),
              buckets |-> bk]
        ELSE IF ~validateConstraints(passportPermission.constraints, params.context)
        THEN [result |-> deny("constraint_violated", "Constraint validation failed", Block),
              buckets |-> bk]
        ELSE IF ~check(lim, bk, t, params.action, passport.passport_id)
        THEN [result |-> deny("rate_limited", "Rate limit exceeded", Block),
              buckets |-> bk]
        ELSE [result |-> Permit(effectiveConstraints),
              buckets |-> increment(lim, bk, t, params.action, passport.passport_id)]

\* Steps 5 to 7 of verifyLocally: catalog version, action in catalog, action in passport
verifyPermission(params, passport, lim, bk, t) ==
    LET effectiveCatalog == resolveCatalogVersion(params.catalog, passport)
    IN  IF "deprecated" \in DOMAIN effectiveCatalog
        THEN [result |-> deny("catalog_version_deprecated",
                              "Passport pins to deprecated catalog version", Block),
              buckets |-> bk]
        ELSE IF params.action \notin DOMAIN effectiveCatalog.permissionsByKey
        THEN [result |-> deny("permission_denied", "not in gate catalog", Block),
              buckets |-> bk]
        ELSE IF params.action \notin DOMAIN passport.claimsByKey
        THEN [result |-> deny("permission_denied", "Passport lacks permission",
                              [Block EXCEPT !.upgrade_template =
                                  effectiveCatalog.permissionsByKey[params.action].default_template]),
              buckets |-> bk]
        ELSE verifyConstraintsAndRate(params, passport,
                                      effectiveCatalog.permissionsByKey[params.action],
                                      passport.claimsByKey[params.action], lim, bk, t)

\* The time value of new Date(s) for a string s that is no date: NaN, for
\* which every comparison is false
InvalidDate == -1

\* new Date(passport.expires_at) < new Date()
Expired(passport, t) == passport.expires_at # InvalidDate /\ passport.expires_at < t

\* verifyLocally with the revocation check moved ahead of the signature check
verifyLocally_revocationFirst(params, lim, bk, t) ==
    IF ~IsSome(params.passport)
    THEN [result |-> verifyAnonymous(params), buckets |-> bk]
    ELSE LET passport == Val(params.passport)
         IN  IF \/ passport.issuer_id \notin DOMAIN params.issuerKeys
                \/ params.issuerKeys[passport.issuer_id] = ""
             THEN [result |-> deny("issuer_not_allowed", "Unknown issuer", Block),
                   buckets |-> bk]
             ELSE IF passport.passport_id \in params.revocationList
             THEN [result |-> deny("passport_revoked", "Passport has been revoked", Block),
                   buckets |-> bk]
             ELSE IF /\ ~params.skipSignatureVerification
                     /\ ~verifySignatureSync(passport, params.issuerKeys[passport.issuer_id])
             THEN [result |-> deny("invalid_signature", "Passport signature invalid", Block),
                   buckets |-> bk]
             ELSE IF Expired(passport, t)
             THEN [result |-> deny("passport_expired", "Passport has expired", Block),
                   buckets |-> bk]
             ELSE verifyPermission(params, passport, lim, bk, t)

\* verifyLocally(params) with the rate limiter in state (lim, bk) at time t:
\* the VerifyResult and the limiter's buckets afterwards
verifyLocally(params, lim, bk, t) ==
    IF ~IsSome(params.passport)
    THEN [result |-> verifyAnonymous(params), buckets |-> bk]
    ELSE LET passport == Val(params.passport)
         IN  IF \/ passport.issuer_id \notin DOMAIN params.issuerKeys
                \/ params.issuerKeys[passport.issuer_id] = ""
             THEN [result |-> deny("issuer_not_allowed", "Unknown issuer", Block),
                   buckets |-> bk]
             ELSE IF /\ ~params.skipSignatureVerification
                     /\ ~verifySignatureSync(passport, params.issuerKeys[passport.issuer_id])
             THEN [result |-> deny("invalid_signature", "Passport signature invalid", Block),
                   buckets |-> bk]
             ELSE IF Expired(passport, t)
             THEN [result |-> deny("passport_expired", "Passport has expired", Block),
                   buckets |-> bk]
             ELSE IF passport.passport_id \in params.revocationList
             THEN [result |-> deny("passport_revoked", "Passport has been revoked", Block),
                   buckets |-> bk]
             ELSE verifyPermission(params, passport, lim, bk, t)

-----------------------------------------------------------------------------
(* The data the calls range over *)

GateId == "gate_test"
TrustedKeys == [i \in {"issuer_trusted"} |-> "key_trusted"]
NoKeys == [i \in {} |-> ""]
NoBuckets == [k \in {} |-> [count |-> 0, resetAt |-> 0]]
NoLimits == [a \in {} |-> [max |-> 0, windowMs |-> 0]]

FlightsEntry(limit) ==
    [permission_key |-> "flights", constraints |-> [k \in {KCost} |-> Num(limit)],
     default_template |-> "travel-booker"]

SearchEntry ==
    [permission_key |-> "flights:search", constraints |-> EmptyMap,
     default_template |-> Undefined]

\* A loaded catalog: version 2 is current, version 1 is retained and lacks
\* flights:search, versions below 1 are deprecated.
TheCatalog ==
    LET current == [version |-> 2,
                    permissionsByKey |-> [k \in {"flights", "flights:search"} |->
                        IF k = "flights" THEN FlightsEntry(2) ELSE SearchEntry]]
        older == [version |-> 1,
                  permissionsByKey |-> [k \in {"flights"} |-> FlightsEntry(3)]]
    IN  [gate_id |-> GateId,
         current |-> current,
         versions |-> [v \in {1} |-> older],
         min_compatible_version |-> 1,
         cached_at |-> 0,
         permissionsByKey |-> current.permissionsByKey]

AnonPolicyOn ==
    [enabled |-> TRUE, allowed_actions |-> {"flights"},
     upgrade_message |-> "Get a passport for full access"]

AnonPolicyOff ==
    [enabled |-> FALSE, allowed_actions |-> {}, upgrade_message |-> Undefined]

\* An enabled policy that states no upgrade message
AnonPolicyNoMessage ==
    [enabled |-> TRUE, allowed_actions |-> {"flights"}, upgrade_message |-> Undefined]

\* The inputs of a call, one field per input that varies
BaseCall ==
    [hasPassport |-> TRUE,
     passport_id |-> "p1",
     issuer_id |-> "issuer_trusted",
     signature |-> "key_trusted",
     expires_at |-> MaxTime + 1,
     catalog_version_pin |-> None,
     permissions |-> <<"flights", "flights:search">>,
     claimConstraints |-> EmptyMap,
     revocationList |-> {},
     action |-> "flights",
     context |-> EmptyMap,
     skipSignatureVerification |-> FALSE,
     anonymousPolicy |-> Some(AnonPolicyOn),
     anonymousRateLimiter |-> None]

\* The other values each input takes
Alternatives ==
    [hasPassport |-> {FALSE},
     passport_id |-> {"p2"},
     issuer_id |-> {"issuer_unknown"},
     signature |-> {"forged"},
     expires_at |-> {1},
     catalog_version_pin |->
         {Some([g \in {"gate_other"} |-> 0])}
             \cup {Some([g \in {GateId} |-> v]) : v \in 0..MaxPin},
     permissions |-> {<<"flights:search">>, << >>},
     claimConstraints |->
         {[k \in {KCost} |-> Num(1)],
          [k \in {KApproval} |-> Bool(TRUE)],
          [k \in {KCost, KApproval} |-> IF k = KCost THEN Num(1) ELSE Bool(TRUE)]},
     revocationList |-> {{"p1"}},
     action |-> {"flights:search", "unknown:permission"},
     context |->
         {[k \in {KCost} |-> Num(2)],
          [k \in {KCost, KAmount} |-> Num(2)],
          [k \in {KCost, KAmount} |-> Num(3)]},
     skipSignatureVerification |-> {TRUE},
     anonymousPolicy |-> {None, Some(AnonPolicyOff), Some(AnonPolicyNoMessage)},
     anonymousRateLimiter |-> {Some([admits |-> FALSE])}]

RECURSIVE CallsWithin(_)
\* The calls that differ from BaseCall in at most k inputs
CallsWithin(k) ==
    IF k = 0 THEN {BaseCall}
    ELSE LET prev == CallsWithin(k - 1)
         IN  prev \cup UNION {{[c EXCEPT ![f] = v] : v \in Alternatives[f]} :
                                 c \in prev, f \in DOMAIN BaseCall}

Calls == CallsWithin(MaxDefects)

\* The passport a call presents, indexed as at load time
PassportOf(c) ==
    buildPassportIndex(
        [passport_id |-> c.passport_id,
         issuer_id |-> c.issuer_id,
         signature |-> c.signature,
         expires_at |-> c.expires_at,
         catalog_version_pin |-> c.catalog_version_pin,
         permissions |-> [i \in DOMAIN c.permissions |->
                             [permission_key |-> c.permissions[i],
                              constraints |-> c.claimConstraints]]])

\* VerifyLocallyParams of a call
ParamsOf(c) ==
    [passport |-> IF c.hasPassport THEN Some(PassportOf(c)) ELSE None,
     catalog |-> TheCatalog,
     revocationList |-> c.revocationList,
     issuerKeys |-> TrustedKeys,
     action |-> c.action,
     context |-> c.context,
     skipSignatureVerification |-> c.skipSignatureVerification,
     anonymousPolicy |-> c.anonymousPolicy,
     anonymousRateLimiter |-> c.anonymousRateLimiter]

\* What the API serves before anything new is published
Upstream0 == [version |-> 1, revocations |-> {}, keys |-> TrustedKeys]

\* CacheManager before startBackgroundRefresh: no interval timer, no fetch in flight
NotRefreshing == [started |-> FALSE, timers |-> {}, pending |-> {}]

\* No asynchronous call is in flight
NoCalls == [c \in {} |-> None]

\* DEFAULT_CACHE_CONFIG: the catalog is fresh for five minutes, the revocation
\* list for one; a stale revocation list does not deny
DEFAULT_CACHE_CONFIG ==
    [catalog_max_age_minutes |-> 5,
     revocation_max_age_minutes |-> 1,
     fail_mode |-> "fail_open",
     fail_mode_overrides |-> [a \in {} |-> None]]

\* The configuration of a server without cache settings and without
\* safe-default issuance
DefaultConfiguration ==
    [cache |-> DEFAULT_CACHE_CONFIG,
     safe_default |-> [enabled |-> FALSE, auto_issue |-> FALSE]]

\* The limits registered at startup: each limited action has none or max in 0..MaxLimit
LimitedActions == {"flights"}

LimitConfigs ==
    UNION {[A -> [max : 0..MaxLimit, windowMs : {WindowMs}]] : A \in SUBSET LimitedActions}

-----------------------------------------------------------------------------
(* The state machine *)

Init ==
    /\ now = 0
    /\ limits \in LimitConfigs
    /\ buckets = NoBuckets
    /\ catalog = None
    /\ revocationList = {}
    /\ issuerKeys = NoKeys
    /\ cachedAt = [revocation |-> 0, issuerKeys |-> 0]
    /\ sessions = [s \in {} |-> None]
    /\ calls = NoCalls
    /\ config = DefaultConfiguration
    /\ upstream = Upstream0
    /\ refresh = NotRefreshing
    /\ anonymousPermits = 0
    /\ last = None

\* The clock advances between calls; nothing was permitted yet at the new instant
Tick ==
    /\ last = None
    /\ now < MaxTime
    /\ now' = now + 1
    /\ anonymousPermits' = 0
    /\ UNCHANGED <<calls, config, upstream, refresh, limits, buckets, catalog, revocationList, issuerKeys, cachedAt, sessions, last>>

\* A caller invokes verifyLocally with the server's rate limiter
CallVerifyLocally ==
    /\ last = None
    /\ \E c \in Calls :
          LET params == ParamsOf(c)
              out == verifyLocally(params, limits, buckets, now)
          IN  /\ buckets' = out.buckets
              /\ last' = Some([op |-> "verifyLocally", call |-> c,
                               result |-> out.result, bucketsBefore |-> buckets])
    /\ UNCHANGED <<calls, config, upstream, refresh, anonymousPermits, now, limits, catalog, revocationList, issuerKeys, cachedAt, sessions>>

\* The call's result has been handed to the caller
Return ==
    /\ last # None
    /\ last' = None
    /\ UNCHANGED <<calls, config, upstream, refresh, anonymousPermits, now, limits, buckets, catalog, revocationList, issuerKeys, cachedAt, sessions>>

Next == Tick \/ CallVerifyLocally \/ Return

Spec == Init /\ [][Next]_vars

-----------------------------------------------------------------------------
(* Vocabulary of the properties of verifyLocally *)

\* A call of the given operation is returning
Returning(op) == IsSome(last) /\ Val(last).op = op

\* A verifyLocally call that presented a passport is returning
ReturningWithPassport == Returning("verifyLocally") /\ Val(last).call.hasPassport

LastCall == Val(last).call
LastResult == Val(last).result
BucketsBefore == Val(last).bucketsBefore

Denied(result, codes) ==
    /\ ~result.allowed
    /\ result.decision = "deny"
    /\ IsSome(result.denial)
    /\ Val(result.denial).code \in codes

IssuerKnown(c) == c.issuer_id \in DOMAIN TrustedKeys

SignatureVerifies(c) == IssuerKnown(c) /\ c.signature = TrustedKeys[c.issuer_id]

Revoked(c) == c.passport_id \in c.revocationList

AnonymousWouldAllow(c) ==
    /\ IsSome(c.anonymousPolicy)
    /\ Val(c.anonymousPolicy).enabled
    /\ c.action \in Val(c.anonymousPolicy).allowed_actions

ResolvedCatalog(c) ==
    resolveCatalogVersion(TheCatalog, [catalog_version_pin |-> c.catalog_version_pin])

PinDeprecated(c) == "deprecated" \in DOMAIN ResolvedCatalog(c)

InCatalog(c) == ~PinDeprecated(c) /\ c.action \in DOMAIN ResolvedCatalog(c).permissionsByKey

InClaims(c) == \E i \in DOMAIN c.permissions : c.permissions[i] = c.action

\* The decision of constraint evaluation on the merged constraints of a call
\* whose action is in the catalog and in the claims
CelDecision(c) ==
    evaluateConstraints(
        mergeConstraints(ResolvedCatalog(c).permissionsByKey[c.action].constraints,
                         c.claimConstraints),
        c.action,
        IF KAmount \in DOMAIN c.context THEN Some(c.context[KAmount].val) ELSE None).decision

\* The limit validation of the credential's constraints against the context
LimitsRespected(c) ==
    \A key \in DOMAIN c.claimConstraints \cap DOMAIN c.context :
        ConstraintTypeOf(key) = "limit" /\ c.claimConstraints[key].type = "number"
            => c.context[key].val <= c.claimConstraints[key].val

\* The count of the live bucket of (action, passportId), 0 when none is open
LiveCount(bk, t, action, passportId) ==
    LET key == getBucketKey(action, passportId)
    IN  IF key \in DOMAIN bk /\ bk[key].resetAt > t THEN bk[key].count ELSE 0

\* The steps of verifyLocally, in order, that a call fails at time t with the
\* limiter's buckets bk: 1 issuer known, 2 signature, 3 expiry, 4 revocation,
\* 5 catalog version, 6 action in catalog, 7 action in claims, 8 constraints,
\* 9 rate limit
FailedSteps(c, lim, bk, t) ==
    LET deprecated == PinDeprecated(c)
        inCatalog == InCatalog(c)
        inClaims == InClaims(c)
        live == LiveCount(bk, t, c.action, c.passport_id)
    IN  (IF ~IssuerKnown(c) THEN {1} ELSE {})
        \cup (IF IssuerKnown(c) /\ ~c.skipSignatureVerification /\ ~SignatureVerifies(c)
              THEN {2} ELSE {})
        \cup (IF c.expires_at < t THEN {3} ELSE {})
        \cup (IF Revoked(c) THEN {4} ELSE {})
        \cup (IF deprecated THEN {5} ELSE {})
        \cup (IF ~deprecated /\ ~inCatalog THEN {6} ELSE {})
        \cup (IF ~inClaims THEN {7} ELSE {})
        \cup (IF /\ inCatalog
                 /\ inClaims
                 /\ (CelDecision(c) # "PERMIT" \/ ~LimitsRespected(c))
              THEN {8} ELSE {})
        \cup (IF c.action \in DOMAIN lim /\ live > 0 /\ live >= lim[c.action].max
              THEN {9} ELSE {})

StepCodes(i) ==
    CASE i = 1 -> {"issuer_not_allowed"}
      [] i = 2 -> {"invalid_signature"}
      [] i = 3 -> {"passport_expired"}
      [] i = 4 -> {"passport_revoked"}
      [] i = 5 -> {"catalog_version_deprecated"}
      [] i = 6 -> {"permission_denied"}
      [] i = 7 -> {"permission_denied"}
      [] i = 8 -> {"constraint_violated", "approval_required"}
      [] i = 9 -> {"rate_limited"}

Earliest(S) == CHOOSE i \in S : \A j \in S : i <= j

LastFailedSteps == FailedSteps(LastCall, limits, BucketsBefore, now)

-----------------------------------------------------------------------------
(* C1: anti-downgrade *)

\* The codes of the integrity failures a credential has at time t; a bad
\* signature counts whether or not signature checking is skipped
IntegrityFailures(c, t) ==
    {code \in {"issuer_not_allowed", "invalid_signature", "passport_expired",
               "passport_revoked"} :
        \/ code = "issuer_not_allowed" /\ ~IssuerKnown(c)
        \/ code = "invalid_signature" /\ IssuerKnown(c) /\ ~SignatureVerifies(c)
        \/ code = "passport_expired" /\ c.expires_at < t
        \/ code = "passport_revoked" /\ Revoked(c)}

\* The same, a bad signature counting only when signature checking is not skipped
CheckedIntegrityFailures(c, t) ==
    IntegrityFailures(c, t) \
        (IF c.skipSignatureVerification THEN {"invalid_signature"} ELSE {})

\* C1 as stated: a presented credential with an unknown issuer, a signature
\* that fails verification, an expires_at already passed or a revoked id, under
\* an enabled anonymous policy that allows the action, is denied with a code
\* naming one of its failures and is never permitted.
C1_AntiDowngradeAsStated ==
    (/\ ReturningWithPassport
     /\ AnonymousWouldAllow(LastCall)
     /\ IntegrityFailures(LastCall, now) # {})
        => Denied(LastResult, IntegrityFailures(LastCall, now))

\* C1 amended: the same, the bad signature counting as a failure only when
\* signature checking is not skipped.
C1_AntiDowngrade ==
    (/\ ReturningWithPassport
     /\ AnonymousWouldAllow(LastCall)
     /\ CheckedIntegrityFailures(LastCall, now) # {})
        => Denied(LastResult, CheckedIntegrityFailures(LastCall, now))

\* A forged credential is being denied although anonymous access would be allowed
C1_Witness ==
    /\ ReturningWithPassport
    /\ AnonymousWouldAllow(LastCall)
    /\ ~LastCall.skipSignatureVerification
    /\ LastCall.signature = "forged"
    /\ Denied(LastResult, {"invalid_signature"})

-----------------------------------------------------------------------------
(* C2: a permit implies that every check held *)

\* C2: when verifyLocally permits a presented credential with signature
\* checking not skipped, the issuer is known, the signature verifies, the
\* credential is not expired (now < expires_at), it is not revoked, its pin is
\* not deprecated, the action is in the resolved catalog and in the claims,
\* constraint evaluation returned PERMIT and the rate limiter's check held.
C2_PermitImpliesAllChecks ==
    (/\ ReturningWithPassport
     /\ ~LastCall.skipSignatureVerification
     /\ LastResult.allowed)
        => /\ IssuerKnown(LastCall)
           /\ SignatureVerifies(LastCall)
           /\ now < LastCall.expires_at
           /\ ~Revoked(LastCall)
           /\ ~PinDeprecated(LastCall)
           /\ InCatalog(LastCall)
           /\ InClaims(LastCall)
           /\ CelDecision(LastCall) = "PERMIT"
           /\ check(limits, BucketsBefore, now, LastCall.action, LastCall.passport_id)

-----------------------------------------------------------------------------
(* C4: the checks form a strict, short-circuiting sequence *)

\* C4: a call with a credential is permitted iff it fails no step; otherwise
\* it is denied with the code of the earliest step it fails, and the rate
\* limiter's buckets are left as they were.
C4_EarliestFailingCheck ==
    ReturningWithPassport
        => LET failed == LastFailedSteps
           IN  IF failed = {}
               THEN LastResult.allowed
               ELSE /\ Denied(LastResult, StepCodes(Earliest(failed)))
                    /\ buckets = BucketsBefore

\* A call failing at least two steps, the rate limit among them, is being denied
C4_Witness ==
    /\ ReturningWithPassport
    /\ LET failed == LastFailedSteps
       IN  Cardinality(failed) >= 2 /\ 9 \in failed
    /\ ~LastResult.allowed

-----------------------------------------------------------------------------
(* C5: the expiry boundary *)

\* C5: a call that passes the issuer and signature steps is denied with
\* passport_expired (BLOCK) exactly when now < expires_at does not hold, so
\* also when expires_at equals now.
C5_ExpiredAtBoundary ==
    (/\ ReturningWithPassport
     /\ LastFailedSteps \cap {1, 2} = {})
        => ((/\ Denied(LastResult, {"passport_expired"})
             /\ LastResult.constraint_decision = "BLOCK")
            <=> ~(now < LastCall.expires_at))

-----------------------------------------------------------------------------
(* C6 and C7: the fixed-window rate limit *)

\* A call with a credential is returning that passed every step before the
\* rate limit, on an action with a registered limit
ReturningAtRateStep ==
    /\ ReturningWithPassport
    /\ LastFailedSteps \cap (1..8) = {}
    /\ LastCall.action \in DOMAIN limits

\* The number of permits counted in the open window of the returning call's
\* (action, credential) before the call
PermitsInWindow == LiveCount(BucketsBefore, now, LastCall.action, LastCall.passport_id)

\* C6: among the calls that pass the earlier checks, a call is permitted
\* while fewer than max calls were permitted in the open window and is
\* otherwise denied with rate_limited (BLOCK), so that the permits counted in
\* one window never exceed max.
C6_NeverMoreThanMax ==
    ReturningAtRateStep
        => /\ IF PermitsInWindow < limits[LastCall.action].max
              THEN LastResult.allowed
              ELSE /\ Denied(LastResult, {"rate_limited"})
                   /\ LastResult.constraint_decision = "BLOCK"
           /\ LiveCount(buckets, now, LastCall.action, LastCall.passport_id)
                  <= limits[LastCall.action].max

\* C7: once now has reached a bucket's resetAt, check returns true for its
\* key whatever the count; a call that then passes the earlier checks is
\* permitted and its increment opens a new window with count 1 and
\* resetAt = now + window.
C7_RecoveryAfterWindow ==
    /\ \A a \in DOMAIN limits, id \in {"p1", "p2"} :
           (/\ getBucketKey(a, id) \in DOMAIN buckets
            /\ buckets[getBucketKey(a, id)].resetAt <= now)
               => check(limits, buckets, now, a, id)
    /\ (/\ ReturningAtRateStep
        /\ getBucketKey(LastCall.action, LastCall.passport_id) \in DOMAIN BucketsBefore
        /\ BucketsBefore[getBucketKey(LastCall.action, LastCall.passport_id)].resetAt <= now)
           => /\ LastResult.allowed
              /\ buckets[getBucketKey(LastCall.action, LastCall.passport_id)]
                    = [count |-> 1,
                       resetAt |-> now + limits[LastCall.action].windowMs]

\* A credential whose window was used up is being permitted again, the window over
C7_Witness ==
    /\ ReturningAtRateStep
    /\ getBucketKey(LastCall.action, LastCall.passport_id) \in DOMAIN BucketsBefore
    /\ LET bucket == BucketsBefore[getBucketKey(LastCall.action, LastCall.passport_id)]
       IN  /\ bucket.resetAt <= now
           /\ bucket.count >= limits[LastCall.action].max
           /\ limits[LastCall.action].max >= 1
    /\ LastResult.allowed

-----------------------------------------------------------------------------
(* C9 and C10: SUSPEND and BLOCK *)

\* C9: when the steps before constraint enforcement pass and constraint
\* evaluation of the merged constraints yields SUSPEND, the result is a deny
\* with constraint_decision SUSPEND, code approval_required, reason_codes
\* containing approval_required and obligations containing require_approval.
C9_SuspendResult ==
    (/\ ReturningWithPassport
     /\ LastFailedSteps \cap (1..7) = {}
     /\ CelDecision(LastCall) = "SUSPEND")
        => /\ Denied(LastResult, {"approval_required"})
           /\ LastResult.constraint_decision = "SUSPEND"
           /\ IsSome(LastResult.reason_codes)
           /\ \E i \in DOMAIN Val(LastResult.reason_codes) :
                  Val(LastResult.reason_codes)[i] = "approval_required"
           /\ IsSome(LastResult.obligations)
           /\ \E i \in DOMAIN Val(LastResult.obligations) :
                  Val(LastResult.obligations)[i] = "require_approval"

\* A call whose claim requires approval is being suspended
C9_Witness ==
    /\ ReturningWithPassport
    /\ LastFailedSteps \cap (1..7) = {}
    /\ CelDecision(LastCall) = "SUSPEND"
    /\ KApproval \in DOMAIN LastCall.claimConstraints
    /\ LastResult.constraint_decision = "SUSPEND"

\* C10: if an integrity or authorization step fails, or constraint evaluation
\* yields BLOCK, or the credential's limits are exceeded by the request
\* context, the result has constraint_decision BLOCK and no obligations, also
\* when the approval constraint yields SUSPEND.
C10_BlockOverSuspend ==
    (/\ ReturningWithPassport
     /\ \/ LastFailedSteps \cap (1..7) # {}
        \/ CelDecision(LastCall) = "BLOCK"
        \/ ~LimitsRespected(LastCall))
        => /\ LastResult.constraint_decision = "BLOCK"
           /\ LastResult.obligations = None

-----------------------------------------------------------------------------
(* C11: the shape of a VerifyResult *)

\* C11: every VerifyResult returned by verifyLocally has allowed true iff
\* decision = permit, a constraint_decision among PERMIT, SUSPEND and BLOCK,
\* decision = permit iff constraint_decision = PERMIT, a denial record iff
\* decision = deny, and reason_codes or obligations only when
\* constraint_decision = SUSPEND.
C11_WellFormedResult ==
    Returning("verifyLocally")
        => /\ LastResult.allowed <=> LastResult.decision = "permit"
           /\ LastResult.decision \in {"permit", "deny"}
           /\ LastResult.constraint_decision \in {"PERMIT", "SUSPEND", "BLOCK"}
           /\ LastResult.decision = "permit" <=> LastResult.constraint_decision = "PERMIT"
           /\ IsSome(LastResult.denial) <=> LastResult.decision = "deny"
           /\ (IsSome(LastResult.reason_codes) \/ IsSome(LastResult.obligations))
                  => LastResult.constraint_decision = "SUSPEND"

-----------------------------------------------------------------------------
(* C12: calls without a credential *)

\* The anonymous rate limiter of a call admits it; a limiter created for the
\* call has counted nothing
AnonymousLimiterAdmits(c) ==
    IsSome(c.anonymousRateLimiter) => Val(c.anonymousRateLimiter).admits

\* C12: a call without credential is permitted iff the anonymous policy is
\* enabled, lists the action and the anonymous rate limiter admits the call;
\* otherwise it is denied with passport_missing, the message being the
\* policy's upgrade message when the policy is enabled and states one; the
\* credential rate limiter's buckets are left as they were.
C12_AnonymousAccess ==
    (Returning("verifyLocally") /\ ~LastCall.hasPassport)
        => LET admitted == AnonymousWouldAllow(LastCall) /\ AnonymousLimiterAdmits(LastCall)
               policy == LastCall.anonymousPolicy
           IN  /\ LastResult.allowed <=> admitted
               /\ admitted => LastResult.decision = "permit" /\ LastResult.denial = None
               /\ ~admitted
                      => /\ Denied(LastResult, {"passport_missing"})
                         /\ (/\ IsSome(policy)
                             /\ Val(policy).enabled
                             /\ Val(policy).upgrade_message # Undefined)
                                => Val(LastResult.denial).message = Val(policy).upgrade_message
               /\ buckets = BucketsBefore

\* An anonymous call on a listed action is being denied with the policy's
\* upgrade message because the anonymous rate limiter does not admit it
C12_Witness ==
    /\ Returning("verifyLocally")
    /\ ~LastCall.hasPassport
    /\ AnonymousWouldAllow(LastCall)
    /\ ~AnonymousLimiterAdmits(LastCall)
    /\ Denied(LastResult, {"passport_missing"})
    /\ Val(LastResult.denial).message = Val(LastCall.anonymousPolicy).upgrade_message
    /\ Val(LastCall.anonymousPolicy).upgrade_message # Undefined

-----------------------------------------------------------------------------
(* The rate limiter used directly: setLimit, increment, reset *)

LimiterActions == {"flights", "flights:search"}

\* The credential ids a caller passes: none, or an id
LimiterIds == {Undefined, "search"}

InitLimiter ==
    /\ now = 0
    /\ limits = NoLimits
    /\ buckets = NoBuckets
    /\ catalog = None
    /\ revocationList = {}
    /\ issuerKeys = NoKeys
    /\ cachedAt = [revocation |-> 0, issuerKeys |-> 0]
    /\ sessions = [s \in {} |-> None]
    /\ calls = NoCalls
    /\ config = DefaultConfiguration
    /\ upstream = Upstream0
    /\ refresh = NotRefreshing
    /\ anonymousPermits = 0
    /\ last = None

\* A limit is registered for an action that has none yet
LimiterSetLimit ==
    /\ last = None
    /\ \E action \in LimiterActions \ DOMAIN limits, max \in 1..MaxLimit :
          limits' = setLimit(limits, action, max, WindowMs)
    /\ UNCHANGED <<calls, config, upstream, refresh, anonymousPermits, now, buckets, catalog, revocationList, issuerKeys, cachedAt, sessions, last>>

\* increment(action, passportId)
LimiterIncrement ==
    /\ last = None
    /\ \E action \in LimiterActions, passportId \in LimiterIds :
          /\ LiveCount(buckets, now, action, passportId) < MaxCount
          /\ buckets' = increment(limits, buckets, now, action, passportId)
          /\ last' = Some([op |-> "increment", action |-> action,
                           passportId |-> passportId, bucketsBefore |-> buckets])
    /\ UNCHANGED <<calls, config, upstream, refresh, anonymousPermits, now, limits, catalog, revocationList, issuerKeys, cachedAt, sessions>>

\* reset(action, passportId)
LimiterReset ==
    /\ last = None
    /\ \E action \in LimiterActions, passportId \in LimiterIds :
          /\ buckets' = reset(buckets, action, passportId)
          /\ last' = Some([op |-> "reset", action |-> action,
                           passportId |-> passportId, bucketsBefore |-> buckets])
    /\ UNCHANGED <<calls, config, upstream, refresh, anonymousPermits, now, limits, catalog, revocationList, issuerKeys, cachedAt, sessions>>

NextLimiter == Tick \/ LimiterSetLimit \/ LimiterIncrement \/ LimiterReset \/ Return

SpecLimiter == InitLimiter /\ [][NextLimiter]_vars

-----------------------------------------------------------------------------
(* C8: counters are kept per (action, credential-id) pair *)

\* C8: incrementing or resetting the counter of one (action, credential-id)
\* pair leaves the result of check unchanged for every pair that differs from
\* it in the action or in the credential-id, the pair without credential-id
\* included.
C8_PairsAreIndependent ==
    (Returning("increment") \/ Returning("reset"))
        => \A action \in LimiterActions, passportId \in LimiterIds :
               (action # Val(last).action \/ passportId # Val(last).passportId)
                   => check(limits, buckets, now, action, passportId)
                          = check(limits, BucketsBefore, now, action, passportId)

-----------------------------------------------------------------------------
(* The server: cache, sessions, tools and the tool-call handler *)

KRatePerMinute == "core:rate:max_per_minute"
KRatePerHour == "core:rate:max_per_hour"

\* The clock counts windows of the per-minute limit in WindowMs ticks
MinuteMs == WindowMs
HourMs == 60 * WindowMs

-----------------------------------------------------------------------------
(* Strings and transformToCanonical *)

\* A JavaScript string with its characters: a sequence of one-character strings
Str(chars) == [type |-> "string", val |-> chars]

Digits == <<"0", "1", "2", "3", "4", "5", "6", "7", "8", "9">>

IsDigit(ch) == \E d \in DOMAIN Digits : Digits[d] = ch

\* Number(ch) of a digit character
DigitValue(ch) == (CHOOSE d \in DOMAIN Digits : Digits[d] = ch) - 1

RECURSIVE ParseDigits(_)
\* BigInt(digits) of a string of digits; 0 for the empty string
ParseDigits(digits) ==
    IF digits = << >> THEN 0
    ELSE ParseDigits(SubSeq(digits, 1, Len(digits) - 1)) * 10
             + DigitValue(digits[Len(digits)])

RECURSIVE NatToString(_)
\* String(n) of a natural number
NatToString(n) ==
    IF n < 10 THEN <<Digits[n + 1]>>
    ELSE NatToString(n \div 10) \o <<Digits[(n % 10) + 1]>>

\* String(value) of a string or an integer
StringOf(value) ==
    IF value.type = "number"
    THEN IF value.val < 0 THEN <<"-">> \o NatToString(-value.val)
         ELSE NatToString(value.val)
    ELSE value.val

RECURSIVE trim(_)
\* String.prototype.trim for blanks
trim(str) ==
    IF str # << >> /\ Head(str) = " " THEN trim(Tail(str))
    ELSE IF str # << >> /\ str[Len(str)] = " " THEN trim(SubSeq(str, 1, Len(str) - 1))
    ELSE str

RECURSIVE padEnd(_, _)
\* str.padEnd(length, '0')
padEnd(str, length) ==
    IF Len(str) >= length THEN str ELSE padEnd(str \o <<"0">>, length)

RECURSIVE Pow10(_)
\* BigInt(10) ** BigInt(n)
Pow10(n) == IF n = 0 THEN 1 ELSE 10 * Pow10(n - 1)

\* The index of the decimal point of str, 0 without one
DotIndex(str) ==
    IF \E i \in DOMAIN str : str[i] = "."
    THEN CHOOSE i \in DOMAIN str : str[i] = "." /\ \A j \in 1..(i - 1) : str[j] # "."
    ELSE 0

\* /^[+-]?\d+(\.\d+)?$/.test(str)
IsNumericFormat(str) ==
    LET body == IF str # << >> /\ Head(str) \in {"+", "-"} THEN Tail(str) ELSE str
        dot == DotIndex(body)
    IN  /\ body # << >>
        /\ \A i \in DOMAIN body : IsDigit(body[i]) \/ (i = dot /\ body[i] = ".")
        /\ dot # 0 => dot > 1 /\ dot < Len(body)

\* Number.MAX_SAFE_INTEGER, scaled to four digits
MAX_SAFE_INTEGER == 9007

build_unpadded(whole, decDigits, precision) ==
    ParseDigits(whole) * Pow10(precision)
        + ParseDigits(SubSeq(decDigits, 1, Min(Len(decDigits), precision)))

\* build(decDigits) within transformToCanonical
build(whole, decDigits, precision) ==
    ParseDigits(whole) * Pow10(precision)
        + ParseDigits(SubSeq(padEnd(decDigits, precision), 1, precision))

Magnitude_roundsAboveHalf(whole, dec, precision, mode) ==
    IF Len(dec) > precision
    THEN IF mode = "strict" THEN None
         ELSE Some(build(whole, SubSeq(dec, 1, precision), precision)
                       + (IF mode # "truncate" /\ DigitValue(dec[precision + 1]) > 5
                          THEN 1 ELSE 0))
    ELSE Some(build(whole, dec, precision))

\* The result before the sign is applied, None when strict mode throws
Magnitude(whole, dec, precision, mode) ==
    IF Len(dec) > precision
    THEN IF mode = "strict" THEN None
         ELSE Some(build(whole, SubSeq(dec, 1, precision), precision)
                       + (IF mode # "truncate" /\ DigitValue(dec[precision + 1]) >= 5
                          THEN 1 ELSE 0))
    ELSE Some(build(whole, dec, precision))

InSafeRange_unchecked(result) == Some(result)

\* The overflow check: None when the result is outside the safe range
InSafeRange(result) ==
    IF result > MAX_SAFE_INTEGER \/ result < -MAX_SAFE_INTEGER THEN None
    ELSE Some(result)

\* The sign applied to the magnitude, then the overflow check
Signed(isNegative, magnitude) ==
    IF ~IsSome(magnitude) THEN None
    ELSE InSafeRange(IF isNegative THEN -Val(magnitude) ELSE Val(magnitude))

\* str0.replace(/^[+-]/, '')
Unsigned(str0) == IF Head(str0) \in {"+", "-"} THEN Tail(str0) ELSE str0

\* str.split('.') at the decimal point found at index dot, and what follows
SplitAt(str, dot, isNegative, precision, mode) ==
    Signed(isNegative,
           Magnitude(IF dot = 0 THEN str ELSE SubSeq(str, 1, dot - 1),
                     IF dot = 0 THEN << >> ELSE SubSeq(str, dot + 1, Len(str)),
                     precision, mode))

\* transformToCanonical from the trimmed string on
CanonicalOfTrimmed(str0, precision, mode) ==
    IF ~IsNumericFormat(str0) THEN None
    ELSE SplitAt(Unsigned(str0), DotIndex(Unsigned(str0)), Head(str0) = "-",
                 precision, mode)

\* transformToCanonical(value, precision, mode): the canonical integer, or
\* None when it throws
transformToCanonical(value, precision, mode) ==
    CanonicalOfTrimmed(trim(StringOf(value)), precision, mode)

-----------------------------------------------------------------------------
(* The tools of the server and the request context *)

\* config.tools: a search tool limited per minute, a booking tool whose price
\* in dollars is bound to the cost constraint in cents
Tools ==
    [name \in {"search_flights", "book_flight"} |->
        IF name = "search_flights"
        THEN [name |-> name, permission_key |-> "flights:search",
              constraints |-> <<[key |-> KRatePerMinute, source |-> "fixed",
                                 input_path |-> Undefined,
                                 fixed_value |-> Some(Num(MaxLimit)),
                                 transform |-> Undefined,
                                 precision |-> Undefined,
                                 transform_mode |-> Undefined]>>]
        ELSE [name |-> name, permission_key |-> "flights",
              constraints |-> <<[key |-> KCost, source |-> "input",
                                 input_path |-> "price",
                                 fixed_value |-> None,
                                 transform |-> "dollars_to_cents",
                                 precision |-> Undefined,
                                 transform_mode |-> Undefined]>>]]

\* The server's configuration: anonymous search, no safe-default issuance, audit on
ServerConfig ==
    [anonymous |-> Some([enabled |-> TRUE, allowed_actions |-> {"flights:search"},
                         rate_limit_per_minute |-> 1,
                         upgrade_message |-> Undefined]),
     safe_default |-> [enabled |-> FALSE, auto_issue |-> FALSE],
     audit |-> [enabled |-> TRUE]]

\* A wrapper that takes no constraint key for an amount
NamesAmount_never(key) == FALSE

\* constraint.key.includes('cost') || constraint.key.includes('price')
NamesAmount(key) ==
    key \in {"core:cost:max_per_action", "core:cost:max_cumulative", "custom:price"}

\* extractConstraintValue(constraint, input): None stands for undefined
extractConstraintValue(constraint, input) ==
    IF constraint.source = "fixed" THEN constraint.fixed_value
    ELSE IF constraint.source = "input" /\ constraint.input_path # Undefined
    THEN IF constraint.input_path \in DOMAIN input
         THEN Some(input[constraint.input_path]) ELSE None
    ELSE None

\* The number applyTransform returns for what transformToCanonical yields
CanonicalNumber(n) == IF IsSome(n) THEN Some(Num(Val(n))) ELSE None

\* applyTransform(value, constraint): the transformed value, or None when
\* transformToCanonical throws
applyTransform(value, constraint) ==
    IF constraint.transform \in {"dollars_to_cents", "custom"}
    THEN CanonicalNumber(
             transformToCanonical(value,
                 IF constraint.transform = "custom" /\ constraint.precision # Undefined
                 THEN constraint.precision ELSE 2,
                 IF constraint.transform_mode # Undefined
                 THEN constraint.transform_mode ELSE "strict"))
    ELSE Some(value)

bindOne_failureClearsContext(constraint, transformed, context) ==
    IF ~IsSome(transformed) THEN EmptyMap
    ELSE [k \in DOMAIN context \cup
                   (IF NamesAmount(constraint.key) THEN {constraint.key, KAmount}
                    ELSE {constraint.key}) |->
             IF k = constraint.key \/ (k = KAmount /\ NamesAmount(constraint.key))
             THEN Val(transformed) ELSE context[k]]

\* The context after one mapping: nothing is bound when its value is
\* undefined or its transform threw
bindOne(constraint, transformed, context) ==
    IF ~IsSome(transformed) THEN context
    ELSE [k \in DOMAIN context \cup
                   (IF NamesAmount(constraint.key) THEN {constraint.key, KAmount}
                    ELSE {constraint.key}) |->
             IF k = constraint.key \/ (k = KAmount /\ NamesAmount(constraint.key))
             THEN Val(transformed) ELSE context[k]]

\* The transformed value of a mapping, None when there is none
transformedValue(constraint, value) ==
    IF IsSome(value) THEN applyTransform(Val(value), constraint) ELSE None

RECURSIVE bindConstraints(_, _, _)
\* The loop of buildRequestContext over the tool's constraint mappings
bindConstraints(constraints, input, context) ==
    IF constraints = << >> THEN context
    ELSE bindConstraints(Tail(constraints), input,
             bindOne(Head(constraints),
                     transformedValue(Head(constraints),
                                      extractConstraintValue(Head(constraints), input)),
                     context))

\* buildRequestContext(tool, input)
buildRequestContext(tool, input) == bindConstraints(tool.constraints, input, EmptyMap)

\* configureRateLimits: the limits registered from the tools at construction
configureRateLimits(tools) ==
    LET rateLimit(n) ==
            LET cs == tools[n].constraints
                found == {i \in DOMAIN cs : cs[i].key \in {KRatePerMinute, KRatePerHour}}
            IN  IF found = {} THEN None
                ELSE Some(cs[CHOOSE i \in found : \A j \in found : i <= j])
        limited == {n \in DOMAIN tools :
                       /\ IsSome(rateLimit(n))
                       /\ IsSome(Val(rateLimit(n)).fixed_value)
                       /\ Val(Val(rateLimit(n)).fixed_value).val # 0}
    IN  [a \in {tools[n].permission_key : n \in limited} |->
            LET n == CHOOSE m \in limited : tools[m].permission_key = a
            IN  [max |-> Val(Val(rateLimit(n)).fixed_value).val,
                 windowMs |-> IF Val(rateLimit(n)).key = KRatePerMinute
                              THEN MinuteMs ELSE HourMs]]

\* updateCatalog(catalog) at time t: the cached catalog
updateCatalog(cat, t) ==
    LET perms == {cat.current.permissionsByKey[k] :
                     k \in DOMAIN cat.current.permissionsByKey}
    IN  [cat EXCEPT !.cached_at = t,
                    !.permissionsByKey =
                        [key \in {perm.permission_key : perm \in perms} |->
                            CHOOSE perm \in perms : perm.permission_key = key]]

\* getOrCreateSession(sessionId) at time t: the sessions map afterwards
getOrCreateSession(sess, sessionId, t) ==
    IF sessionId \in DOMAIN sess
    THEN [sess EXCEPT ![sessionId].last_activity = t]
    ELSE [id \in DOMAIN sess \cup {sessionId} |->
             IF id = sessionId
             THEN [session_id |-> sessionId, passport |-> None,
                   created_at |-> t, last_activity |-> t]
             ELSE sess[id]]

setPassport_keepsIndex(sess, sessionId, passport, t) ==
    IF sessionId \in DOMAIN sess
    THEN [sess EXCEPT ![sessionId].passport =
                          IF "claimsByKey" \in DOMAIN passport THEN Some(passport)
                          ELSE Some(buildPassportIndex(passport)),
                      ![sessionId].last_activity = t]
    ELSE sess

\* setPassport(sessionId, passport) at time t: the sessions map afterwards
setPassport(sess, sessionId, passport, t) ==
    IF sessionId \in DOMAIN sess
    THEN [sess EXCEPT ![sessionId].passport = Some(buildPassportIndex(passport)),
                      ![sessionId].last_activity = t]
    ELSE sess

\* The response of handleCallTool before verification was reached
EarlyError(text, bk) ==
    [isError |-> TRUE, text |-> text, verification |-> None,
     handlerInvocations |-> 0, thrown |-> FALSE, audit |-> << >>, buckets |-> bk]

\* The parameters handleCallTool passes to verifyLocally
ServerParams(tool, input, passport, cat, revs, keys) ==
    [passport |-> passport,
     catalog |-> Val(cat),
     revocationList |-> revs,
     issuerKeys |-> keys,
     action |-> tool.permission_key,
     context |-> buildRequestContext(tool, input),
     skipSignatureVerification |-> FALSE,
     anonymousPolicy |-> ServerConfig.anonymous,
     anonymousRateLimiter |-> None]

\* handleCallTool that formats the denial but goes on to execute the tool
handleCallTool_denialFallsThrough(toolName, input, passport, cat, revs, keys, lim, bk, t, handlerThrows) ==
    IF toolName \notin DOMAIN Tools
    THEN EarlyError("Unknown tool", bk)
    ELSE IF ~IsSome(cat)
    THEN EarlyError("Catalog not loaded. Please try again.", bk)
    ELSE LET tool == Tools[toolName]
             out == verifyLocally(ServerParams(tool, input, passport, cat, revs, keys),
                                  lim, bk, t)
         IN  [isError |-> handlerThrows \/ ~out.result.allowed,
              text |-> "result",
              verification |-> Some(out.result),
              handlerInvocations |-> 1,
              thrown |-> handlerThrows,
              audit |-> IF ServerConfig.audit.enabled
                        THEN <<"tool_execution_start",
                               IF handlerThrows THEN "error" ELSE "success">>
                        ELSE << >>,
              buckets |-> out.buckets]

\* handleCallTool for a session holding `passport`, with the cache (cat, revs,
\* keys) and the limiter (lim, bk) at time t; handlerThrows is the outcome of
\* the tool's handler.  Yields the response, what was verified, how often the
\* handler ran, the audit events and the limiter's buckets afterwards.
handleCallTool(toolName, input, passport, cat, revs, keys, lim, bk, t, handlerThrows) ==
    IF toolName \notin DOMAIN Tools
    THEN EarlyError("Unknown tool", bk)
    ELSE IF ~IsSome(cat)
    THEN EarlyError("Catalog not loaded. Please try again.", bk)
    ELSE LET tool == Tools[toolName]
             out == verifyLocally(ServerParams(tool, input, passport, cat, revs, keys),
                                  lim, bk, t)
         IN  IF ~out.result.allowed
             THEN [isError |-> TRUE, text |-> "Permission denied",
                   verification |-> Some(out.result),
                   handlerInvocations |-> 0, thrown |-> FALSE, audit |-> << >>,
                   buckets |-> out.buckets]
             ELSE [isError |-> handlerThrows,
                   text |-> "result",
                   verification |-> Some(out.result),
                   handlerInvocations |-> 1,
                   thrown |-> handlerThrows,
                   audit |-> IF ServerConfig.audit.enabled
                             THEN <<"tool_execution_start",
                                    IF handlerThrows THEN "error" ELSE "success">>
                             ELSE << >>,
                   buckets |-> out.buckets]

\* The data of the server runs
SessionIds == {"default"}
RequestedTools == DOMAIN Tools \cup {"unknown_tool"}
Inputs ==
    {EmptyMap,
     [f \in {"price"} |-> Str(<<"0", ".", "0", "1">>)],
     [f \in {"price"} |-> Str(<<"0", ".", "0", "3">>)]}

\* The passports a session is given: valid, forged, expiring at 1, needing approval
ServerPassports ==
    {[p \in DOMAIN PassportOf(c) \ {"claimsByKey"} |-> PassportOf(c)[p]] :
        c \in {BaseCall,
               [BaseCall EXCEPT !.signature = "forged"],
               [BaseCall EXCEPT !.expires_at = 1],
               [BaseCall EXCEPT !.claimConstraints = [k \in {KApproval} |-> Bool(TRUE)]]}}

InitServer ==
    /\ now = 0
    /\ limits = configureRateLimits(Tools)
    /\ buckets = NoBuckets
    /\ catalog = None
    /\ revocationList = {}
    /\ issuerKeys = NoKeys
    /\ cachedAt = [revocation |-> 0, issuerKeys |-> 0]
    /\ sessions = [s \in {} |-> None]
    /\ calls = NoCalls
    /\ config = DefaultConfiguration
    /\ upstream = Upstream0
    /\ refresh = NotRefreshing
    /\ anonymousPermits = 0
    /\ last = None

\* A refresh stores the catalog
UpdateCatalog ==
    /\ last = None
    /\ catalog' = Some(updateCatalog(TheCatalog, now))
    /\ UNCHANGED <<calls, config, upstream, refresh, anonymousPermits, now, limits, buckets, revocationList, issuerKeys, cachedAt, sessions, last>>

\* A refresh stores the revocation list
UpdateRevocationList ==
    /\ last = None
    /\ \E revocations \in SUBSET {"p1"} : revocationList' = revocations
    /\ cachedAt' = [cachedAt EXCEPT !.revocation = now]
    /\ UNCHANGED <<calls, config, upstream, refresh, anonymousPermits, now, limits, buckets, catalog, issuerKeys, sessions, last>>

\* A refresh stores the issuer keys
UpdateIssuerKeys ==
    /\ last = None
    /\ \E keys \in {NoKeys, TrustedKeys} : issuerKeys' = keys
    /\ cachedAt' = [cachedAt EXCEPT !.issuerKeys = now]
    /\ UNCHANGED <<calls, config, upstream, refresh, anonymousPermits, now, limits, buckets, catalog, revocationList, sessions, last>>

\* A passport is bound to a session
SetPassport ==
    /\ last = None
    /\ \E sessionId \in SessionIds, passport \in ServerPassports :
          sessions' = setPassport(sessions, sessionId, passport, now)
    /\ UNCHANGED <<calls, config, upstream, refresh, anonymousPermits, now, limits, buckets, catalog, revocationList, issuerKeys, cachedAt, last>>

\* A tools/call request is handled
HandleCallTool ==
    /\ last = None
    /\ \E sessionId \in SessionIds, toolName \in RequestedTools, input \in Inputs,
          handlerThrows \in BOOLEAN :
          LET sess == getOrCreateSession(sessions, sessionId, now)
              out == handleCallTool(toolName, input, sess[sessionId].passport,
                                    catalog, revocationList, issuerKeys,
                                    limits, buckets, now, handlerThrows)
              anonymous == /\ ~IsSome(sess[sessionId].passport)
                           /\ IsSome(out.verification)
                           /\ Val(out.verification).allowed
          IN  /\ anonymous => anonymousPermits < MaxAnonymous
              /\ sessions' = sess
              /\ buckets' = out.buckets
              /\ anonymousPermits' = anonymousPermits + (IF anonymous THEN 1 ELSE 0)
              /\ last' = Some([op |-> "handleCallTool", sessionId |-> sessionId,
                               toolName |-> toolName, input |-> input,
                               response |-> out, bucketsBefore |-> buckets])
    /\ UNCHANGED <<calls, config, upstream, refresh, now, limits, catalog, revocationList, issuerKeys, cachedAt>>

NextServer ==
    \/ Tick
    \/ UpdateCatalog
    \/ UpdateRevocationList
    \/ UpdateIssuerKeys
    \/ SetPassport
    \/ HandleCallTool
    \/ Return

SpecServer == InitServer /\ [][NextServer]_vars

-----------------------------------------------------------------------------
(* C3: the tool's handler runs only after a permit *)

\* What verifyLocally returns for the returning tool call
LastVerification ==
    verifyLocally(ServerParams(Tools[Val(last).toolName], Val(last).input,
                               sessions[Val(last).sessionId].passport,
                               catalog, revocationList, issuerKeys),
                  limits, BucketsBefore, now).result

\* C3: a tool call invokes the tool's handler at most once, and only when
\* verifyLocally returned allowed = true for that call; for an unknown tool,
\* a catalog not loaded or a denial the handler is not invoked.
C3_HandlerOnlyAfterPermit ==
    Returning("handleCallTool")
        => LET response == Val(last).response
               verified == Val(last).toolName \in DOMAIN Tools /\ IsSome(catalog)
           IN  /\ response.handlerInvocations <= 1
               /\ response.handlerInvocations = 1
                      => verified /\ LastVerification.allowed
               /\ (verified /\ ~LastVerification.allowed)
                      => response.handlerInvocations = 0 /\ response.isError
               /\ ~verified => response.handlerInvocations = 0 /\ response.isError

\* A permitted tool call has invoked its handler once
C3_Witness ==
    /\ Returning("handleCallTool")
    /\ Val(last).response.handlerInvocations = 1
    /\ IsSome(sessions[Val(last).sessionId].passport)
    /\ LastVerification.allowed

-----------------------------------------------------------------------------
(* C13: anonymous calls are rate limited per source *)

\* A tool call of a session without passport is returning from verification
ReturningAnonymousToolCall ==
    /\ Returning("handleCallTool")
    /\ IsSome(Val(last).response.verification)
    /\ ~IsSome(sessions[Val(last).sessionId].passport)

\* C13: under an enabled anonymous policy with rate_limit_per_minute = N,
\* once N anonymous calls of one source were permitted within a minute (here:
\* at the same instant), every further anonymous call of that source arriving
\* through the tool-call handler is denied.
C13_AnonymousRateLimited ==
    ReturningAnonymousToolCall
        => LET allowed == Val(Val(last).response.verification).allowed
               permittedBefore == anonymousPermits - (IF allowed THEN 1 ELSE 0)
           IN  permittedBefore >= Val(ServerConfig.anonymous).rate_limit_per_minute
                   => ~allowed

-----------------------------------------------------------------------------
(* The functions of the verification module applied to drawn inputs *)

KCurrency == "core:pricing:currency"
KRegion == "custom:region"

\* A string that is no number; i tells such strings apart
Text(i) == [type |-> "text", val |-> i]

\* The constraint maps drawn: a limit key, a term key and a key of no
\* registered type, each absent, a number or a string
ConstraintKeys == {KCost, KCurrency, KRegion}
ConstraintValues == {Num(1), Num(2), Text(0)}
ConstraintMaps == UNION {[K -> ConstraintValues] : K \in SUBSET ConstraintKeys}

\* A catalog whose current version is 3, with the given minimum compatible
\* version and retained versions
CatalogWith(minCompatible, retained) ==
    [TheCatalog EXCEPT
        !.current = [version |-> 3, permissionsByKey |-> TheCatalog.permissionsByKey],
        !.versions = [v \in retained |->
                         [version |-> v,
                          permissionsByKey |-> [k \in {"flights"} |-> FlightsEntry(3)]]],
        !.min_compatible_version = minCompatible]

Catalogs == {CatalogWith(m, R) : m \in 0..2, R \in SUBSET {1, 2}}

\* The pins a passport carries: none, for another gate, for this gate
Pins == Alternatives.catalog_version_pin \cup {None}

InitFunctions ==
    /\ now = 0
    /\ limits = NoLimits
    /\ buckets = NoBuckets
    /\ catalog = None
    /\ revocationList = {}
    /\ issuerKeys = NoKeys
    /\ cachedAt = [revocation |-> 0, issuerKeys |-> 0]
    /\ sessions = [s \in {} |-> None]
    /\ calls = NoCalls
    /\ config = DefaultConfiguration
    /\ upstream = Upstream0
    /\ refresh = NotRefreshing
    /\ anonymousPermits = 0
    /\ last = None

\* mergeConstraints(catalogConstraints, passportConstraints); the function has
\* no throw statement, so nothing is thrown
CallMergeConstraints ==
    /\ last = None
    /\ \E catalogConstraints \in ConstraintMaps, passportConstraints \in ConstraintMaps :
          last' = Some([op |-> "mergeConstraints",
                        catalogConstraints |-> catalogConstraints,
                        passportConstraints |-> passportConstraints,
                        result |-> mergeConstraints(catalogConstraints, passportConstraints),
                        thrown |-> Undefined])
    /\ UNCHANGED <<calls, config, upstream, refresh, anonymousPermits, now, limits, buckets, catalog, revocationList, issuerKeys, cachedAt, sessions>>

\* verifyLocally for an otherwise valid passport with the drawn pin against a
\* drawn catalog: the version resolved at step 5 and the VerifyResult
CallResolveCatalogVersion ==
    /\ last = None
    /\ \E cat \in Catalogs, pin \in Pins :
          LET passport == PassportOf([BaseCall EXCEPT !.catalog_version_pin = pin])
              params == [ParamsOf(BaseCall) EXCEPT !.passport = Some(passport),
                                                   !.catalog = cat]
          IN  last' = Some([op |-> "resolveCatalogVersion",
                            catalog |-> cat,
                            pin |-> pin,
                            resolved |-> resolveCatalogVersion(cat, passport),
                            result |-> verifyLocally(params, limits, buckets, now).result])
    /\ UNCHANGED <<calls, config, upstream, refresh, anonymousPermits, now, limits, buckets, catalog, revocationList, issuerKeys, cachedAt, sessions>>

\* The prices a caller sends, in dollars: strings with two, three and one
\* decimals, padded, signed, not a number, and integers
Prices ==
    {Str(<<"0", ".", "0", "1">>), Str(<<"0", ".", "0", "2">>), Str(<<"0", ".", "0", "3">>),
     Str(<<"0", ".", "0", "1", "5">>), Str(<<"0", ".", "0", "3", "5">>),
     Str(<<"0", ".", "1">>), Str(<<" ", "0", ".", "0", "2">>),
     Str(<<"-", "0", ".", "0", "1">>), Str(<<"a", "b", "c">>), Num(0), Num(1)}

\* The limits on core:cost:max_per_action, in cents
CostLimits == 1..(MaxLimit + 1)

\* The constraints of the credential's claim: none, a cost limit, approval, both
ClaimConstraintMaps ==
    {EmptyMap, [k \in {KApproval} |-> Bool(TRUE)]}
        \cup {[k \in {KCost} |-> Num(l)] : l \in CostLimits}
        \cup {[k \in {KCost, KApproval} |-> IF k = KCost THEN Num(l) ELSE Bool(TRUE)] :
                  l \in CostLimits}

\* A loaded catalog whose entry for flights limits the cost to `limit` cents
CatalogCosting(limit) ==
    [TheCatalog EXCEPT
        !.current = [version |-> 2,
                     permissionsByKey |-> [k \in {"flights", "flights:search"} |->
                         IF k = "flights" THEN FlightsEntry(limit) ELSE SearchEntry]]]

\* A tools/call request for book_flight with a drawn price, for a session
\* holding an otherwise valid passport with drawn claim constraints, against a
\* catalog with a drawn cost limit
CallToolWithPrice ==
    /\ last = None
    /\ \E input \in {EmptyMap} \cup {[f \in {"price"} |-> price] : price \in Prices},
          catalogLimit \in CostLimits, claimConstraints \in ClaimConstraintMaps :
          LET passport == PassportOf([BaseCall EXCEPT !.claimConstraints = claimConstraints])
              out == handleCallTool("book_flight", input, Some(passport),
                                    Some(updateCatalog(CatalogCosting(catalogLimit), now)),
                                    {}, TrustedKeys, limits, buckets, now, FALSE)
          IN  /\ buckets' = out.buckets
              /\ last' = Some([op |-> "callTool", toolName |-> "book_flight",
                               input |-> input, catalogLimit |-> catalogLimit,
                               claimConstraints |-> claimConstraints, response |-> out])
    /\ UNCHANGED <<calls, config, upstream, refresh, anonymousPermits, now, limits, catalog, revocationList, issuerKeys, cachedAt, sessions>>

NextFunctions ==
    \/ CallMergeConstraints
    \/ CallResolveCatalogVersion
    \/ CallToolWithPrice
    \/ Return

SpecFunctions == InitFunctions /\ [][NextFunctions]_vars

-----------------------------------------------------------------------------
(* C14 and C15: the constraint merge *)

\* C14: for catalog map X and credential map Y, the merged map has for a
\* limit key with numbers in both the smaller number, for a limit key in only
\* one map that map's value, for a term key the value of X (none when X lacks
\* the key) whatever Y holds, and for every key of X that Y does not mention
\* the value of X.
C14_MergeConstraints ==
    Returning("mergeConstraints")
        => LET X == Val(last).catalogConstraints
               Y == Val(last).passportConstraints
               result == Val(last).result
           IN  \A k \in ConstraintKeys :
                   /\ (/\ ConstraintTypeOf(k) = "limit"
                       /\ k \in DOMAIN X /\ X[k].type = "number"
                       /\ k \in DOMAIN Y /\ Y[k].type = "number")
                          => k \in DOMAIN result /\ result[k] = Num(Min(X[k].val, Y[k].val))
                   /\ (ConstraintTypeOf(k) = "limit" /\ k \in DOMAIN X \ DOMAIN Y)
                          => k \in DOMAIN result /\ result[k] = X[k]
                   /\ (ConstraintTypeOf(k) = "limit" /\ k \in DOMAIN Y \ DOMAIN X)
                          => k \in DOMAIN result /\ result[k] = Y[k]
                   /\ (ConstraintTypeOf(k) = "term" /\ k \in DOMAIN X)
                          => k \in DOMAIN result /\ result[k] = X[k]
                   /\ (ConstraintTypeOf(k) = "term" /\ k \notin DOMAIN X)
                          => k \notin DOMAIN result
                   /\ k \in DOMAIN X \ DOMAIN Y
                          => k \in DOMAIN result /\ result[k] = X[k]

\* A merge is returning that took the smaller limit from the credential and
\* kept the catalog's term against the credential's
C14_Witness ==
    /\ Returning("mergeConstraints")
    /\ LET X == Val(last).catalogConstraints
           Y == Val(last).passportConstraints
       IN  /\ KCost \in DOMAIN X /\ X[KCost] = Num(2)
           /\ KCost \in DOMAIN Y /\ Y[KCost] = Num(1)
           /\ KCurrency \in DOMAIN X /\ KCurrency \in DOMAIN Y
           /\ X[KCurrency] # Y[KCurrency]
    /\ Val(last).result[KCost] = Num(1)

\* C15: a merge given a non-numeric value for a limit key fails with
\* constraint_type_error, and a non-numeric credential value for a limit key
\* never stands in the merged map where the catalog holds a number.
C15_NonNumericLimitRejected ==
    Returning("mergeConstraints")
        => LET X == Val(last).catalogConstraints
               Y == Val(last).passportConstraints
               result == Val(last).result
           IN  \A k \in ConstraintKeys :
                   ConstraintTypeOf(k) = "limit"
                       => /\ (\/ k \in DOMAIN X /\ X[k].type # "number"
                              \/ k \in DOMAIN Y /\ Y[k].type # "number")
                                 => Val(last).thrown = "constraint_type_error"
                          /\ (/\ k \in DOMAIN X /\ X[k].type = "number"
                              /\ k \in DOMAIN Y /\ Y[k].type # "number")
                                 => result[k] = X[k]

-----------------------------------------------------------------------------
(* C17: catalog version resolution *)

\* The pin of the returning resolution for the catalog's gate, None without one
LastPin ==
    IF /\ IsSome(Val(last).pin)
       /\ Val(last).catalog.gate_id \in DOMAIN Val(Val(last).pin)
    THEN Some(Val(Val(last).pin)[Val(last).catalog.gate_id])
    ELSE None

\* C17: without a pin for the gate the current version is used; a pin below
\* min_compatible_version yields the deprecated outcome, denied with
\* catalog_version_deprecated (BLOCK); a pin >= min_compatible_version
\* resolves to the retained version of that number if there is one and to the
\* current version otherwise.
C17_CatalogVersionResolution ==
    Returning("resolveCatalogVersion")
        => LET cat == Val(last).catalog
               resolved == Val(last).resolved
               result == Val(last).result
           IN  IF ~IsSome(LastPin) THEN resolved = cat.current
               ELSE IF Val(LastPin) < cat.min_compatible_version
               THEN /\ "deprecated" \in DOMAIN resolved
                    /\ Denied(result, {"catalog_version_deprecated"})
                    /\ result.constraint_decision = "BLOCK"
               ELSE /\ "deprecated" \notin DOMAIN resolved
                    /\ ~Denied(result, {"catalog_version_deprecated"})
                    /\ resolved = IF Val(LastPin) \in DOMAIN cat.versions
                                  THEN cat.versions[Val(LastPin)]
                                  ELSE cat.current

\* A pin at min_compatible_version is resolving to the retained version
C17_Witness ==
    /\ Returning("resolveCatalogVersion")
    /\ IsSome(LastPin)
    /\ Val(LastPin) = Val(last).catalog.min_compatible_version
    /\ Val(LastPin) \in DOMAIN Val(last).catalog.versions
    /\ Val(last).resolved = Val(last).catalog.versions[Val(LastPin)]
    /\ Val(last).resolved # Val(last).catalog.current

-----------------------------------------------------------------------------
(* C16: the cost limit on a tool call *)

\* A book_flight call that sent a price is returning
ReturningPricedCall == Returning("callTool") /\ "price" \in DOMAIN Val(last).input

\* The VerifyResult of the returning tool call
LastVerdict == Val(Val(last).response.verification)

\* min(catalog limit, credential-claim limit) of the returning tool call
EffectiveLimit ==
    IF KCost \in DOMAIN Val(last).claimConstraints
    THEN Min(Val(last).catalogLimit, Val(last).claimConstraints[KCost].val)
    ELSE Val(last).catalogLimit

\* C16 as stated: for a price that is a decimal number, a call is permitted
\* only if the price in cents is at most min(catalog limit, claim limit), a
\* call with a larger price is denied with constraint_violated (BLOCK), and a
\* permit carries that minimum in its effective constraints.  The price is
\* compared exactly, in hundredths of a cent.
C16_CostLimitAsStated ==
    ReturningPricedCall
        => LET exact == transformToCanonical(Val(last).input["price"], 4, "strict")
           IN  IsSome(exact)
                   => /\ LastVerdict.allowed => Val(exact) <= EffectiveLimit * 100
                      /\ Val(exact) > EffectiveLimit * 100
                             => /\ Denied(LastVerdict, {"constraint_violated"})
                                /\ LastVerdict.constraint_decision = "BLOCK"
                      /\ LastVerdict.allowed
                             => /\ IsSome(LastVerdict.effective_constraints)
                                /\ Val(LastVerdict.effective_constraints)[KCost]
                                       = Num(EffectiveLimit)

\* C16 amended: the same for the prices that dollars_to_cents converts, that
\* is decimal numbers with at most two decimals.
C16_CostLimit ==
    ReturningPricedCall
        => LET cents == transformToCanonical(Val(last).input["price"], 2, "strict")
           IN  IsSome(cents)
                   => /\ LastVerdict.allowed => Val(cents) <= EffectiveLimit
                      /\ Val(cents) > EffectiveLimit
                             => /\ Denied(LastVerdict, {"constraint_violated"})
                                /\ LastVerdict.constraint_decision = "BLOCK"
                      /\ LastVerdict.allowed
                             => /\ IsSome(LastVerdict.effective_constraints)
                                /\ Val(LastVerdict.effective_constraints)[KCost]
                                       = Num(EffectiveLimit)

\* A price within the catalog's limit and above the claim's is being denied
C16_Witness ==
    /\ ReturningPricedCall
    /\ LET cents == transformToCanonical(Val(last).input["price"], 2, "strict")
       IN  /\ IsSome(cents)
           /\ Val(cents) <= Val(last).catalogLimit
           /\ Val(cents) > EffectiveLimit
    /\ Denied(LastVerdict, {"constraint_violated"})
    /\ LastVerdict.constraint_decision = "BLOCK"

-----------------------------------------------------------------------------
(* CacheManager: background refresh *)

Entries == {"catalog", "revocations", "issuerKeys"}

\* this.state of the CacheManager
CacheState ==
    [catalog |-> catalog,
     revocationList |-> revocationList,
     revocationCachedAt |-> cachedAt.revocation,
     issuerKeys |-> issuerKeys,
     issuerKeysCachedAt |-> cachedAt.issuerKeys]

\* The issuer keys after the issuer rotated its key
RotatedKeys == [i \in {"issuer_trusted"} |-> "key_rotated"]

\* The permissions the API lists for the gate
UpstreamPermissions == {FlightsEntry(2), SearchEntry}

\* What fetch and response.json() yield.  error: fetch rejected; ok:
\* response.ok; body: None when the body is no JSON, else the parsed value,
\* which is null or an object with the fields it states
TransportError == [error |-> TRUE, ok |-> FALSE, body |-> None]
HttpResponse(ok, body) == [error |-> FALSE, ok |-> ok, body |-> body]
NullBody == [null |-> TRUE]
EmptyObject ==
    [null |-> FALSE, version |-> None, permissions |-> None,
     min_compatible_version |-> None, passport_ids |-> None, keys |-> None]

\* The body the API serves for an entry
UpstreamBody(entry) ==
    CASE entry = "catalog" ->
             [EmptyObject EXCEPT !.version = Some(upstream.version),
                                 !.permissions = Some(UpstreamPermissions),
                                 !.min_compatible_version = Some(1)]
      [] entry = "revocations" ->
             [EmptyObject EXCEPT !.passport_ids = Some(upstream.revocations)]
      [] entry = "issuerKeys" ->
             [EmptyObject EXCEPT !.keys = Some(upstream.keys)]

\* The responses a fetch of an entry can meet
Responses(entry) ==
    {TransportError,
     HttpResponse(FALSE, Some(EmptyObject)),
     HttpResponse(TRUE, None),
     HttpResponse(TRUE, Some(NullBody)),
     HttpResponse(TRUE, Some(EmptyObject)),
     HttpResponse(TRUE, Some(UpstreamBody(entry)))}

\* The try block is left for the catch block: fetch rejected, status not OK,
\* response.json() rejected, or a property read of null
Caught(response) ==
    \/ response.error
    \/ ~response.ok
    \/ ~IsSome(response.body)
    \/ Val(response.body).null

\* buildPermissionIndex(permissions)
buildPermissionIndex(permissions) ==
    [key \in {perm.permission_key : perm \in permissions} |->
        CHOOSE perm \in permissions : perm.permission_key = key]

\* updateRevocationList adding to the cached set instead of replacing it
updateRevocationList_addsToSet(state, revocations, t) ==
    [state EXCEPT !.revocationList = @ \cup revocations,
                  !.revocationCachedAt = t]

\* updateRevocationList(revocations) at time t
updateRevocationList(state, revocations, t) ==
    [state EXCEPT !.revocationList = revocations,
                  !.revocationCachedAt = t]

\* updateIssuerKeys(keys) at time t
updateIssuerKeys(state, keys, t) ==
    [state EXCEPT !.issuerKeys = keys,
                  !.issuerKeysCachedAt = t]

\* refreshCatalog once the fetch has completed with `response`, at time t:
\* this.state afterwards and whether the promise rejects
refreshCatalog(state, response, t) ==
    IF Caught(response) THEN [state |-> state, thrown |-> FALSE]
    ELSE LET data == Val(response.body)
             built ==
                 [gate_id |-> GateId,
                  current |-> [version |-> IF IsSome(data.version)
                                           THEN Val(data.version) ELSE 1,
                               permissionsByKey |->
                                   buildPermissionIndex(IF IsSome(data.permissions)
                                                        THEN Val(data.permissions)
                                                        ELSE {})],
                  versions |-> [v \in {} |-> None],
                  min_compatible_version |-> IF IsSome(data.min_compatible_version)
                                             THEN Val(data.min_compatible_version)
                                             ELSE 1,
                  cached_at |-> t,
                  permissionsByKey |-> [k \in {} |-> None]]
         IN  [state |-> [state EXCEPT !.catalog = Some(updateCatalog(built, t))],
              thrown |-> FALSE]

\* refreshRevocations that does not look at the response status
refreshRevocations_ignoresStatus(state, response, t) ==
    IF response.error \/ ~IsSome(response.body) \/ Val(response.body).null
    THEN [state |-> state, thrown |-> FALSE]
    ELSE LET data == Val(response.body)
         IN  [state |-> updateRevocationList(state,
                            IF IsSome(data.passport_ids)
                            THEN Val(data.passport_ids) ELSE {}, t),
              thrown |-> FALSE]

\* refreshRevocations once the fetch has completed
refreshRevocations(state, response, t) ==
    IF Caught(response) THEN [state |-> state, thrown |-> FALSE]
    ELSE LET data == Val(response.body)
         IN  [state |-> updateRevocationList(state,
                            IF IsSome(data.passport_ids)
                            THEN Val(data.passport_ids) ELSE {}, t),
              thrown |-> FALSE]

\* refreshIssuerKeys once the fetch has completed
refreshIssuerKeys(state, response, t) ==
    IF Caught(response) THEN [state |-> state, thrown |-> FALSE]
    ELSE LET data == Val(response.body)
         IN  [state |-> updateIssuerKeys(state,
                            IF IsSome(data.keys) THEN Val(data.keys) ELSE NoKeys, t),
              thrown |-> FALSE]

\* The refresh method of an entry
refreshEntry(entry, state, response, t) ==
    CASE entry = "catalog" -> refreshCatalog(state, response, t)
      [] entry = "revocations" -> refreshRevocations(state, response, t)
      [] entry = "issuerKeys" -> refreshIssuerKeys(state, response, t)

\* A server whose session holds a valid passport and whose cache is empty
InitCache ==
    /\ now = 0
    /\ limits = configureRateLimits(Tools)
    /\ buckets = NoBuckets
    /\ catalog = None
    /\ revocationList = {}
    /\ issuerKeys = NoKeys
    /\ cachedAt = [revocation |-> 0, issuerKeys |-> 0]
    /\ sessions = setPassport(getOrCreateSession([s \in {} |-> None], "default", 0),
                              "default",
                              [p \in DOMAIN PassportOf(BaseCall) \ {"claimsByKey"} |->
                                  PassportOf(BaseCall)[p]],
                              0)
    /\ calls = NoCalls
    /\ config = DefaultConfiguration
    /\ upstream = Upstream0
    /\ refresh = NotRefreshing
    /\ anonymousPermits = 0
    /\ last = None

\* startBackgroundRefresh up to its await: refreshAll starts the three fetches
StartBackgroundRefresh ==
    /\ last = None
    /\ ~refresh.started
    /\ refresh' = [started |-> TRUE, timers |-> {}, pending |-> Entries]
    /\ UNCHANGED <<calls, config, upstream, anonymousPermits, now, limits, buckets, catalog, revocationList, issuerKeys, cachedAt, sessions, last>>

\* startBackgroundRefresh after refreshAll has settled: setInterval for the
\* catalog and for the revocation list
StartIntervals ==
    /\ last = None
    /\ refresh.started
    /\ refresh.timers = {}
    /\ refresh.pending = {}
    /\ refresh' = [refresh EXCEPT !.timers = {"catalog", "revocations"}]
    /\ UNCHANGED <<calls, config, upstream, anonymousPermits, now, limits, buckets, catalog, revocationList, issuerKeys, cachedAt, sessions, last>>

\* The interval timer of an entry fires and its refresh method starts a fetch
TimerFires(entry) ==
    /\ last = None
    /\ entry \in refresh.timers
    /\ entry \notin refresh.pending
    /\ refresh' = [refresh EXCEPT !.pending = @ \cup {entry}]
    /\ UNCHANGED <<calls, config, upstream, anonymousPermits, now, limits, buckets, catalog, revocationList, issuerKeys, cachedAt, sessions, last>>

\* The fetch of an entry completes with `response` and the refresh method
\* runs to its end
FetchCompletesWith(entry, response) ==
    /\ last = None
    /\ entry \in refresh.pending
    /\ LET out == refreshEntry(entry, CacheState, response, now)
       IN  /\ catalog' = out.state.catalog
           /\ revocationList' = out.state.revocationList
           /\ issuerKeys' = out.state.issuerKeys
           /\ cachedAt' = [revocation |-> out.state.revocationCachedAt,
                           issuerKeys |-> out.state.issuerKeysCachedAt]
           /\ last' = Some([op |-> "refresh", entry |-> entry, response |-> response,
                            before |-> CacheState, thrown |-> out.thrown])
    /\ refresh' = [refresh EXCEPT !.pending = @ \ {entry}]
    /\ UNCHANGED <<calls, config, upstream, anonymousPermits, now, limits, buckets, sessions>>

FetchCompletes ==
    \E entry \in Entries : \E response \in Responses(entry) :
        FetchCompletesWith(entry, response)

\* The fetch of an entry succeeds with what the API serves
FetchSucceeds(entry) == FetchCompletesWith(entry, HttpResponse(TRUE, Some(UpstreamBody(entry))))

\* Something new is published upstream: catalog version 2, the revocation of
\* p1, later replaced by the revocation of p2, a rotated issuer key
Publish ==
    /\ last = None
    /\ \/ upstream.version = 1 /\ upstream' = [upstream EXCEPT !.version = 2]
       \/ upstream.revocations = {} /\ upstream' = [upstream EXCEPT !.revocations = {"p1"}]
       \/ upstream.revocations = {"p1"} /\ upstream' = [upstream EXCEPT !.revocations = {"p2"}]
       \/ upstream.keys = TrustedKeys /\ upstream' = [upstream EXCEPT !.keys = RotatedKeys]
    /\ UNCHANGED <<calls, config, refresh, anonymousPermits, now, limits, buckets, catalog, revocationList, issuerKeys, cachedAt, sessions, last>>

\* A tools/call request for book_flight is handled with what the cache holds
CallToolFromCache ==
    /\ last = None
    /\ LET sess == getOrCreateSession(sessions, "default", now)
           out == handleCallTool("book_flight", EmptyMap, sess["default"].passport,
                                 catalog, revocationList, issuerKeys,
                                 limits, buckets, now, FALSE)
       IN  /\ sessions' = sess
           /\ buckets' = out.buckets
           /\ last' = Some([op |-> "callToolFromCache", response |-> out,
                            seen |-> CacheState])
    /\ UNCHANGED <<calls, config, upstream, refresh, anonymousPermits, now, limits, catalog, revocationList, issuerKeys, cachedAt>>

NextRefresh ==
    \/ StartBackgroundRefresh
    \/ StartIntervals
    \/ \E entry \in Entries : TimerFires(entry)
    \/ FetchCompletes
    \/ Publish
    \/ Return

NextCache == NextRefresh \/ Tick \/ CallToolFromCache

\* The cache with background refresh, tool calls and the clock
SpecCache == InitCache /\ [][NextCache]_vars

\* The timers keep firing and fetches succeed again and again
RefreshFairness ==
    /\ WF_vars(Return)
    /\ SF_vars(StartIntervals)
    /\ \A entry \in Entries : SF_vars(TimerFires(entry))
    /\ \A entry \in Entries : SF_vars(FetchSucceeds(entry))

\* Background refresh alone, under that fairness
SpecRefresh == InitCache /\ [][NextRefresh]_vars /\ RefreshFairness

-----------------------------------------------------------------------------
(* C18: a failed refresh leaves the cache as it was *)

ReturningRefresh == IsSome(last) /\ Val(last).op = "refresh"

\* The fetch failed in transport, came back with a non-OK status, or its
\* body was no JSON
FetchFailed(response) ==
    response.error \/ ~response.ok \/ ~IsSome(response.body)

\* C18: after a refresh whose fetch failed in transport, returned a non-OK
\* status or returned a body that cannot be parsed, the refresh has not
\* thrown and the catalog, the revocation list, the issuer keys and their
\* cached-at timestamps are what they were before; and a catalog that the
\* cache shows always carries its complete permission index.
C18_FailedRefreshKeepsCache ==
    /\ (ReturningRefresh /\ FetchFailed(Val(last).response))
           => /\ ~Val(last).thrown
              /\ CacheState = Val(last).before
    /\ IsSome(catalog)
           => Val(catalog).permissionsByKey = Val(catalog).current.permissionsByKey

\* A refresh of the revocation list got a non-OK status at a time later than
\* the list was cached, with a revocation in the cache
C18_Witness ==
    /\ ReturningRefresh
    /\ Val(last).entry = "revocations"
    /\ ~Val(last).response.error
    /\ ~Val(last).response.ok
    /\ Val(last).before.revocationList # {}
    /\ Val(last).before.revocationCachedAt < now

-----------------------------------------------------------------------------
(* C19: entries are replaced whole *)

\* The value a refresh method builds from a response it accepts: the cache
\* with that entry replaced and nothing else touched
Replaced(entry, before, response, t) ==
    LET data == Val(response.body)
    IN  CASE entry = "catalog" ->
                 [before EXCEPT !.catalog =
                     Some([gate_id |-> GateId,
                           current |->
                               [version |-> IF IsSome(data.version)
                                            THEN Val(data.version) ELSE 1,
                                permissionsByKey |->
                                    [key \in {perm.permission_key :
                                                 perm \in IF IsSome(data.permissions)
                                                          THEN Val(data.permissions)
                                                          ELSE {}} |->
                                        CHOOSE perm \in Val(data.permissions) :
                                            perm.permission_key = key]],
                           versions |-> [v \in {} |-> None],
                           min_compatible_version |->
                               IF IsSome(data.min_compatible_version)
                               THEN Val(data.min_compatible_version) ELSE 1,
                           cached_at |-> t,
                           permissionsByKey |->
                               [key \in {perm.permission_key :
                                            perm \in IF IsSome(data.permissions)
                                                     THEN Val(data.permissions)
                                                     ELSE {}} |->
                                   CHOOSE perm \in Val(data.permissions) :
                                       perm.permission_key = key]])]
          [] entry = "revocations" ->
                 [before EXCEPT !.revocationList =
                                    IF IsSome(data.passport_ids)
                                    THEN Val(data.passport_ids) ELSE {},
                                !.revocationCachedAt = t]
          [] entry = "issuerKeys" ->
                 [before EXCEPT !.issuerKeys =
                                    IF IsSome(data.keys) THEN Val(data.keys) ELSE NoKeys,
                                !.issuerKeysCachedAt = t]

\* C19: under any interleaving of refreshes with tool calls, a refresh that
\* has completed left the cache either as it was or with its own entry
\* replaced whole by the value built from the response, the other entries
\* untouched; and a tool call was verified against the catalog, revocation
\* list and issuer keys the cache held, which are still what the cache holds
\* when the call returns.
C19_EntriesReplacedWhole ==
    /\ ReturningRefresh
           => \/ CacheState = Val(last).before
              \/ /\ ~Caught(Val(last).response)
                 /\ CacheState = Replaced(Val(last).entry, Val(last).before,
                                          Val(last).response, now)
    /\ (IsSome(last) /\ Val(last).op = "callToolFromCache")
           => /\ CacheState = Val(last).seen
              /\ Val(last).response =
                     handleCallTool("book_flight", EmptyMap,
                                    sessions["default"].passport,
                                    Val(last).seen.catalog,
                                    Val(last).seen.revocationList,
                                    Val(last).seen.issuerKeys,
                                    limits, buckets, now, FALSE)

\* A refresh replaced the cached revocation of p1 by the revocation of p2
C19_Witness ==
    /\ ReturningRefresh
    /\ Val(last).entry = "revocations"
    /\ Val(last).before.revocationList = {"p1"}
    /\ revocationList = {"p2"}
    /\ IsSome(catalog)

-----------------------------------------------------------------------------
(* C20: what is published upstream reaches the cache *)

\* C20: once background refresh runs and fetches keep succeeding, a catalog
\* version, a revocation and an issuer key published upstream are each
\* eventually in the cache.
C20_UpstreamEventuallyCached ==
    /\ (refresh.started /\ upstream.version = 2)
           ~> (IsSome(catalog) /\ Val(catalog).current.version = 2)
    /\ (refresh.started /\ upstream.revocations = {"p2"})
           ~> (revocationList = {"p2"})
    /\ (refresh.started /\ upstream.keys = RotatedKeys)
           ~> (issuerKeys = RotatedKeys)

-----------------------------------------------------------------------------
(* The server under a configuration: cache freshness, fail mode, safe default *)

\* isCatalogFresh() at time t
isCatalogFresh(cacheConfig, cat, t) ==
    IF ~IsSome(cat) THEN FALSE
    ELSE t - Val(cat).cached_at < cacheConfig.catalog_max_age_minutes * MinuteMs

\* isRevocationListFresh(action) at time t
isRevocationListFresh(cacheConfig, revocationCachedAt, action, t) ==
    t - revocationCachedAt <
        (IF action \in DOMAIN cacheConfig.fail_mode_overrides
         THEN cacheConfig.fail_mode_overrides[action].revocation_max_age_minutes
         ELSE cacheConfig.revocation_max_age_minutes) * MinuteMs

\* getFailMode(action)
getFailMode(cacheConfig, action) ==
    IF action \in DOMAIN cacheConfig.fail_mode_overrides
    THEN cacheConfig.fail_mode_overrides[action].fail_mode
    ELSE cacheConfig.fail_mode

\* The override tables of the configurations: none, or one for the booking
\* action with either fail mode
FailModeOverrides ==
    {[a \in {} |-> None]} \cup
    {[a \in {"flights"} |-> [fail_mode |-> mode, revocation_max_age_minutes |-> 1]] :
        mode \in {"fail_open", "fail_closed"}}

\* The configurations a server is constructed with: entries fresh for one
\* minute, either fail mode, with and without automatic safe-default issuance
Configurations ==
    {[cache |-> [catalog_max_age_minutes |-> 1,
                 revocation_max_age_minutes |-> 1,
                 fail_mode |-> mode,
                 fail_mode_overrides |-> overrides],
      safe_default |-> [enabled |-> issue, auto_issue |-> issue]] :
        mode \in {"fail_open", "fail_closed"},
        overrides \in FailModeOverrides,
        issue \in BOOLEAN}

\* The passport the issuer returns for a safe-default request
SafeDefaultPassport ==
    [p \in DOMAIN PassportOf(BaseCall) \ {"claimsByKey"} |-> PassportOf(BaseCall)[p]]

\* What issueSafeDefault can meet: the request fails, or the issuer returns
\* a passport
Issuances == {None, Some(SafeDefaultPassport)}

\* The URLs SessionManager fetches
SafeDefaultUrl == "passports/safe-default"

\* getOrCreateSession(sessionId) under a safe-default configuration at time
\* t, `issued` being what issueSafeDefault meets: the sessions afterwards and
\* the network requests made
getOrCreateSessionWith(safeDefault, sess, sessionId, t, issued) ==
    IF sessionId \in DOMAIN sess \/ ~(safeDefault.enabled /\ safeDefault.auto_issue)
    THEN [sessions |-> getOrCreateSession(sess, sessionId, t), fetched |-> << >>]
    ELSE [sessions |->
              IF IsSome(issued)
              THEN [getOrCreateSession(sess, sessionId, t) EXCEPT
                        ![sessionId].passport = Some(buildPassportIndex(Val(issued)))]
              ELSE getOrCreateSession(sess, sessionId, t),
          fetched |-> <<SafeDefaultUrl>>]

InitConfigured ==
    /\ now = 0
    /\ limits = configureRateLimits(Tools)
    /\ buckets = NoBuckets
    /\ catalog = None
    /\ revocationList = {}
    /\ issuerKeys = NoKeys
    /\ cachedAt = [revocation |-> 0, issuerKeys |-> 0]
    /\ sessions = [s \in {} |-> None]
    /\ calls = NoCalls
    /\ config \in Configurations
    /\ upstream = Upstream0
    /\ refresh = NotRefreshing
    /\ anonymousPermits = 0
    /\ last = None

\* A passport that verifies is bound to a session
BindPassport ==
    /\ last = None
    /\ \E sessionId \in SessionIds :
          /\ sessionId \in DOMAIN sessions
          /\ sessions' = setPassport(sessions, sessionId, SafeDefaultPassport, now)
    /\ UNCHANGED <<calls, config, upstream, refresh, anonymousPermits, now, limits, buckets, catalog, revocationList, issuerKeys, cachedAt, last>>

\* A tools/call request for book_flight is handled by the configured server
HandleCallToolConfigured ==
    /\ last = None
    /\ \E sessionId \in SessionIds, issued \in Issuances :
          LET got == getOrCreateSessionWith(config.safe_default, sessions, sessionId,
                                            now, issued)
              out == handleCallTool("book_flight", EmptyMap,
                                    got.sessions[sessionId].passport,
                                    catalog, revocationList, issuerKeys,
                                    limits, buckets, now, FALSE)
          IN  /\ sessions' = got.sessions
              /\ buckets' = out.buckets
              /\ last' = Some([op |-> "handleCallToolConfigured",
                               action |-> Tools["book_flight"].permission_key,
                               response |-> out,
                               fetched |-> got.fetched,
                               hadSession |-> sessionId \in DOMAIN sessions])
    /\ UNCHANGED <<calls, config, upstream, refresh, anonymousPermits, now, limits, catalog, revocationList, issuerKeys, cachedAt>>

NextConfigured ==
    \/ Tick
    \/ UpdateCatalog
    \/ UpdateRevocationList
    \/ UpdateIssuerKeys
    \/ BindPassport
    \/ HandleCallToolConfigured
    \/ Return

\* The server constructed with any of the configurations
SpecConfigured == InitConfigured /\ [][NextConfigured]_vars

-----------------------------------------------------------------------------
(* C21: confident tells whether the cache was fresh *)

ReturningConfiguredCall ==
    /\ IsSome(last)
    /\ Val(last).op = "handleCallToolConfigured"
    /\ IsSome(Val(last).response.verification)

\* C21: the result of a tool call's verification has confident = TRUE exactly
\* when the catalog and the revocation list it consulted were within their
\* maximum age at the time of the call.
C21_ConfidentIffFresh ==
    ReturningConfiguredCall
        => (Val(Val(last).response.verification).confident
               <=> /\ isCatalogFresh(config.cache, catalog, now)
                   /\ isRevocationListFresh(config.cache, cachedAt.revocation,
                                             Val(last).action, now))

-----------------------------------------------------------------------------
(* C22: the fail mode decides about a stale revocation list *)

\* C22: a tool call is denied when the fail mode in effect for its action is
\* fail_closed and the revocation list is older than the maximum age that
\* applies to the action.
C22_FailClosedDeniesWhenStale ==
    (/\ ReturningConfiguredCall
     /\ getFailMode(config.cache, Val(last).action) = "fail_closed"
     /\ ~isRevocationListFresh(config.cache, cachedAt.revocation, Val(last).action, now))
        => ~Val(Val(last).response.verification).allowed

-----------------------------------------------------------------------------
(* C28: no network call in the request flow *)

\* C28: handling a tools/call request makes no network request between the
\* arrival of the request and its decision.
C28_NoNetworkInRequestFlow ==
    (IsSome(last) /\ Val(last).op = "handleCallToolConfigured")
        => Val(last).fetched = << >>

-----------------------------------------------------------------------------
(* verifyLocally on malformed inputs *)

\* What can be wrong with the inputs: a claim without its constraints mapping,
\* catalog entries without constraints, an expires_at that is no date, a
\* signature or an issuer key that is no Ed25519 material
Malformations ==
    {"claim_constraints", "catalog_constraints", "expires_at", "signature", "issuer_key"}

\* An entry or claim as parsed from JSON that states no constraints
WithoutConstraints(entry) == [f \in DOMAIN entry \ {"constraints"} |-> entry[f]]

\* A permission index whose entries state no constraints
IndexWithoutConstraints(index) == [k \in DOMAIN index |-> WithoutConstraints(index[k])]

\* The catalog with every entry lacking constraints
CatalogWithoutConstraints(cat) ==
    [cat EXCEPT !.current.permissionsByKey = IndexWithoutConstraints(@),
                !.versions = [v \in DOMAIN @ |->
                                 [@[v] EXCEPT !.permissionsByKey =
                                                  IndexWithoutConstraints(@)]],
                !.permissionsByKey = IndexWithoutConstraints(@)]

\* The passport of call c with the malformations m, indexed as at load time
MalformedPassport(c, m) ==
    buildPassportIndex(
        [passport_id |-> c.passport_id,
         issuer_id |-> c.issuer_id,
         signature |-> IF "signature" \in m THEN MalformedHex ELSE c.signature,
         expires_at |-> IF "expires_at" \in m THEN InvalidDate ELSE c.expires_at,
         catalog_version_pin |-> c.catalog_version_pin,
         permissions |-> [i \in DOMAIN c.permissions |->
                             IF "claim_constraints" \in m
                             THEN [permission_key |-> c.permissions[i]]
                             ELSE [permission_key |-> c.permissions[i],
                                   constraints |-> c.claimConstraints]]])

\* The parameters of call c with the malformations m
MalformedParams(c, m) ==
    [ParamsOf(c) EXCEPT
        !.passport = IF c.hasPassport THEN Some(MalformedPassport(c, m)) ELSE None,
        !.catalog = IF "catalog_constraints" \in m
                    THEN CatalogWithoutConstraints(TheCatalog) ELSE TheCatalog,
        !.issuerKeys = IF "issuer_key" \in m
                       THEN [i \in {"issuer_trusted"} |-> MalformedHex]
                       ELSE TrustedKeys]

\* The calls the malformations are applied to
MalformedBaseCalls == CallsWithin(1)

\* A caller invokes verifyLocally with malformed inputs
CallVerifyMalformed ==
    /\ last = None
    /\ \E c \in MalformedBaseCalls, m \in SUBSET Malformations :
          LET out == verifyLocally(MalformedParams(c, m), limits, buckets, now)
          IN  /\ buckets' = out.buckets
              /\ last' = Some([op |-> "verifyMalformed", call |-> c, malformed |-> m,
                               result |-> out.result])
    /\ UNCHANGED <<calls, config, upstream, refresh, anonymousPermits, now, limits, catalog, revocationList, issuerKeys, cachedAt, sessions>>

NextMalformed == Tick \/ CallVerifyMalformed \/ Return

\* verifyLocally called with inputs that may be malformed
SpecMalformed == Init /\ [][NextMalformed]_vars

-----------------------------------------------------------------------------
(* C23: the hot path is total *)

\* C23: verifyLocally returns a VerifyResult and does not throw, whatever the
\* input: claims without a constraints mapping, catalog entries without
\* constraints, an unparsable expires_at, malformed signatures or issuer keys.
C23_HotPathTotal ==
    Returning("verifyMalformed")
        => /\ "thrown" \notin DOMAIN Val(last).result
           /\ "allowed" \in DOMAIN Val(last).result

-----------------------------------------------------------------------------
(* Commerce: cost computation and consumption attestations *)

\* A call that threw an Error with the given message
Thrown(message) == [thrown |-> message]

\* A call that returned the given value
Returned(value) == [value |-> value]

\* Math.ceil(n / d) for a positive d
Ceil(n, d) == -((-n) \div d)

computePlatformFee_floors(serviceCostCents, basisPoints) ==
    IF serviceCostCents < 0 THEN Thrown("Cost cannot be negative")
    ELSE IF basisPoints < 0 THEN Thrown("Basis points cannot be negative")
    ELSE Returned((serviceCostCents * basisPoints) \div 10000)

computePlatformFee(serviceCostCents, basisPoints) ==
    IF serviceCostCents < 0 THEN Thrown("Cost cannot be negative")
    ELSE IF basisPoints < 0 THEN Thrown("Basis points cannot be negative")
    ELSE Returned(Ceil(serviceCostCents * basisPoints, 10000))

\* computeCallCost(pricing, units); an absent field of pricing is None
computeCallCost(pricing, units) ==
    IF IsSome(pricing.per_call_cents) THEN Val(pricing.per_call_cents) * units ELSE 0

computeTimeCost(pricing, durationMs) ==
    IF IsSome(pricing.per_minute_cents)
    THEN Val(pricing.per_minute_cents) * Ceil(durationMs, 60000)
    ELSE 0

KPerCall == "core:pricing:per_call_cents"
KPerMinute == "core:pricing:per_minute_cents"
KModel == "core:pricing:model"
KBasisPoints == "core:platform_fee:basis_points"

\* constraints[key], None when the key is absent (undefined)
Lookup(constraints, key) ==
    IF key \in DOMAIN constraints THEN Some(constraints[key]) ELSE None

extractPricingConstraints(constraints) ==
    [per_call_cents |-> Lookup(constraints, KPerCall),
     per_minute_cents |-> Lookup(constraints, KPerMinute),
     model |-> Lookup(constraints, KModel)]

extractPlatformFeeConstraints(constraints) ==
    [basis_points |-> Lookup(constraints, KBasisPoints)]

\* The truthiness of an optional number: present and not 0
TruthyNumber(optional) == IsSome(optional) /\ Val(optional) # 0

\* The truthiness of an optional string: present and not empty
TruthyString(optional) == IsSome(optional) /\ Val(optional) # ""

\* A member of a JSON object: absent when the value is undefined
Member(name, rendered) ==
    IF IsSome(rendered) THEN <<(<<name, ":">> \o Val(rendered))>> ELSE << >>

\* JSON.stringify of an optional number
JsonNumber(optional) ==
    IF IsSome(optional) THEN Some(StringOf(Num(Val(optional)))) ELSE None

\* JSON.stringify of an optional string
JsonString(optional) ==
    IF IsSome(optional) THEN Some(<<"'", Val(optional), "'">>) ELSE None

\* JSON.stringify of a receipt without its proof: the members in insertion
\* order, undefined ones left out
stringify(payload) ==
    Member("attestation_type", JsonString(Some(payload.attestation_type)))
    \o Member("attestation_id", JsonString(Some(payload.attestation_id)))
    \o Member("request_nonce", JsonString(payload.request_nonce))
    \o Member("effective_constraints.pricing.per_call_cents",
              JsonNumber(payload.effective_constraints.pricing.per_call_cents))
    \o Member("effective_constraints.pricing.per_minute_cents",
              JsonNumber(payload.effective_constraints.pricing.per_minute_cents))
    \o Member("effective_constraints.pricing.model",
              JsonString(payload.effective_constraints.pricing.model))
    \o Member("effective_constraints.platform_fee.basis_points",
              JsonNumber(payload.effective_constraints.platform_fee.basis_points))
    \o Member("consumption.units", JsonNumber(Some(payload.consumption.units)))
    \o Member("consumption.cost_cents", JsonNumber(Some(payload.consumption.cost_cents)))
    \o Member("consumption.platform_fee_cents",
              JsonNumber(Some(payload.consumption.platform_fee_cents)))
    \o Member("consumption.timestamp", JsonNumber(Some(payload.consumption.timestamp)))
    \o Member("consumption.duration_ms", JsonNumber(payload.consumption.duration_ms))

\* The gate's signing key and the public key that belongs to it
GateKey == "gate-key"

\* The sign callback: a signature over exactly these bytes under the gate's key
sign(payload) == [over |-> payload, by |-> GateKey]

\* The verify callback: accepts a signature made over the same bytes under
\* the key the public key belongs to
verify(payload, sig, publicKey) == sig.over = payload /\ sig.by = publicKey

\* The cost the issuer charges
IssuedCost(pricing, units, duration_ms) ==
    IF pricing.model = Some("per_minute") /\ IsSome(duration_ms)
    THEN computeTimeCost(pricing, Val(duration_ms))
    ELSE computeCallCost(pricing, units)

\* The fee on a cost: platformFee.basis_points ? computePlatformFee(...) : 0
FeeOn(cost_cents, platformFee) ==
    IF TruthyNumber(platformFee.basis_points)
    THEN computePlatformFee(cost_cents, Val(platformFee.basis_points))
    ELSE Returned(0)

\* The attestation payload of issueConsumptionAttestation
AttestationPayload(params, pricing, platformFee, units, cost_cents, platform_fee_cents, t) ==
    [attestation_type |-> "consumption",
     attestation_id |-> "catt_1",
     request_nonce |-> IF TruthyString(params.request_nonce)
                       THEN params.request_nonce ELSE None,
     effective_constraints |-> [pricing |-> pricing, platform_fee |-> platformFee],
     consumption |-> [units |-> units,
                      cost_cents |-> cost_cents,
                      platform_fee_cents |-> platform_fee_cents,
                      timestamp |-> t,
                      duration_ms |-> params.duration_ms]]

\* The receipt: the payload with the proof over its canonical JSON
WithProof(attestationPayload) ==
    [proof |-> [type |-> "JWS", kid |-> "gate#key-1",
                sig |-> sign(stringify(attestationPayload))]]
        @@ attestationPayload

\* The receipt for a cost, or the error computePlatformFee threw
IssueAt(params, pricing, platformFee, units, cost_cents, fee, t) ==
    IF "thrown" \in DOMAIN fee THEN fee
    ELSE WithProof(AttestationPayload(params, pricing, platformFee, units,
                                      cost_cents, fee.value, t))

\* issueConsumptionAttestation once pricing, fee constraints and units are known
IssueWith(params, pricing, platformFee, units, t) ==
    IssueAt(params, pricing, platformFee, units,
            IssuedCost(pricing, units, params.duration_ms),
            FeeOn(IssuedCost(pricing, units, params.duration_ms), platformFee), t)

\* issueConsumptionAttestation(params) at time t; units defaults to 1
issueConsumptionAttestation(params, t) ==
    IssueWith(params,
              extractPricingConstraints(params.effective_constraints),
              extractPlatformFeeConstraints(params.effective_constraints),
              IF IsSome(params.units) THEN Val(params.units) ELSE 1, t)

\* expected_nonce && attestation.request_nonce !== expected_nonce
NonceMismatch(attestation, expected_nonce) ==
    TruthyString(expected_nonce) /\ attestation.request_nonce # expected_nonce

\* The receipt without its proof
PayloadWithoutProof(attestation) ==
    [f \in DOMAIN attestation \ {"proof"} |-> attestation[f]]

\* The cost the verifier recomputes
ExpectedCost(pricing, consumption) ==
    IF pricing.model = Some("per_minute") /\ TruthyNumber(consumption.duration_ms)
    THEN computeTimeCost(pricing, Val(consumption.duration_ms))
    ELSE computeCallCost(pricing, consumption.units)

\* Steps 3 and 4 of verifyConsumptionAttestation: cost, then platform fee
VerifyAmounts(attestation, expectedCost, expectedFee) ==
    IF attestation.consumption.cost_cents # expectedCost
    THEN Returned([valid |-> FALSE, error |-> "Cost mismatch"])
    ELSE IF "thrown" \in DOMAIN expectedFee THEN expectedFee
    ELSE IF attestation.consumption.platform_fee_cents # expectedFee.value
    THEN Returned([valid |-> FALSE, error |-> "Platform fee mismatch"])
    ELSE Returned([valid |-> TRUE, error |-> Undefined])

\* The verification once the cost is recomputed
VerifyCost(attestation, expectedCost) ==
    VerifyAmounts(attestation, expectedCost,
                  IF attestation.consumption.cost_cents # expectedCost
                  THEN Returned(0)
                  ELSE FeeOn(expectedCost, attestation.effective_constraints.platform_fee))

verifyConsumptionAttestation_skipsSignature(attestation, expected_nonce, gate_public_key) ==
    IF NonceMismatch(attestation, expected_nonce)
    THEN Returned([valid |-> FALSE,
                   error |-> "Request nonce mismatch - attestation may be fabricated"])
    ELSE VerifyCost(attestation,
                    ExpectedCost(attestation.effective_constraints.pricing,
                                 attestation.consumption))

\* verifyConsumptionAttestation(params): nonce, signature, cost, platform fee
verifyConsumptionAttestation(attestation, expected_nonce, gate_public_key) ==
    IF NonceMismatch(attestation, expected_nonce)
    THEN Returned([valid |-> FALSE,
                   error |-> "Request nonce mismatch - attestation may be fabricated"])
    ELSE IF ~verify(stringify(PayloadWithoutProof(attestation)), attestation.proof.sig,
                    gate_public_key)
    THEN Returned([valid |-> FALSE, error |-> "Invalid signature"])
    ELSE VerifyCost(attestation,
                    ExpectedCost(attestation.effective_constraints.pricing,
                                 attestation.consumption))

MaxUnits == 2       \* a receipt is issued for 0..MaxUnits units

\* The effective constraints of a call: each pricing key absent or present
ConstraintChoices ==
    [per_call_cents : {None, Some(2)},
     per_minute_cents : {None, Some(3)},
     model : {None, Some("per_call"), Some("per_minute")},
     basis_points : {None, Some(0), Some(250)}]

\* The constraint object of a choice: the chosen keys with their values
EffectiveConstraintsOf(choice) ==
    [k \in {k \in {KPerCall, KPerMinute, KModel, KBasisPoints} :
                IsSome(CASE k = KPerCall -> choice.per_call_cents
                         [] k = KPerMinute -> choice.per_minute_cents
                         [] k = KModel -> choice.model
                         [] OTHER -> choice.basis_points)} |->
        CASE k = KPerCall -> Val(choice.per_call_cents)
          [] k = KPerMinute -> Val(choice.per_minute_cents)
          [] k = KModel -> Val(choice.model)
          [] OTHER -> Val(choice.basis_points)]

\* The parameters receipts are issued for: units absent or 0..MaxUnits, a
\* duration absent, zero, within and beyond a minute, a nonce absent, empty
\* or present
IssueReceiptParams ==
    [effective_constraints : {EffectiveConstraintsOf(c) : c \in ConstraintChoices},
     request_nonce : {None, Some(""), Some("n1")},
     units : {None} \cup {Some(u) : u \in 0..MaxUnits},
     duration_ms : {None, Some(0), Some(1), Some(60001)}]

\* The nonce a verifier expects: none, empty, the issued one, another one
ExpectedNonces == {None, Some(""), Some("n1"), Some("n2")}

\* The field a receipt is modified in after issuance
Tampers ==
    {"none", "cost_cents", "platform_fee_cents", "per_call_cents", "per_minute_cents",
     "model", "basis_points"}

\* Another value for an optional number
OtherNumber(optional) == IF IsSome(optional) THEN Some(Val(optional) + 1) ELSE Some(1)

\* The receipt with the field changed and the proof left as issued
Tampered(attestation, tamper) ==
    CASE tamper = "cost_cents" ->
             [attestation EXCEPT !.consumption.cost_cents = @ + 1]
      [] tamper = "platform_fee_cents" ->
             [attestation EXCEPT !.consumption.platform_fee_cents = @ + 1]
      [] tamper = "per_call_cents" ->
             [attestation EXCEPT !.effective_constraints.pricing.per_call_cents =
                                     OtherNumber(@)]
      [] tamper = "per_minute_cents" ->
             [attestation EXCEPT !.effective_constraints.pricing.per_minute_cents =
                                     OtherNumber(@)]
      [] tamper = "model" ->
             [attestation EXCEPT !.effective_constraints.pricing.model =
                                     IF @ = Some("per_minute") THEN Some("per_call")
                                     ELSE Some("per_minute")]
      [] tamper = "basis_points" ->
             [attestation EXCEPT !.effective_constraints.platform_fee.basis_points =
                                     OtherNumber(@)]
      [] OTHER -> attestation

\* What the verifier answers for what the issuer produced
VerifyIssued(issued, tamper, expected_nonce) ==
    IF "thrown" \in DOMAIN issued THEN issued
    ELSE verifyConsumptionAttestation(Tampered(issued, tamper), expected_nonce, GateKey)

\* A gate issues a receipt, the receipt is possibly modified on its way, and
\* the agent verifies it
IssueAndVerifyReceipt ==
    /\ last = None
    /\ \E params \in IssueReceiptParams, tamper \in Tampers, expected_nonce \in ExpectedNonces :
          last' = Some([op |-> "verifyConsumptionAttestation",
                        params |-> params,
                        tamper |-> tamper,
                        expected_nonce |-> expected_nonce,
                        issued |-> issueConsumptionAttestation(params, now),
                        result |-> VerifyIssued(issueConsumptionAttestation(params, now),
                                                tamper, expected_nonce)])
    /\ UNCHANGED <<calls, config, upstream, refresh, anonymousPermits, now, limits, buckets, catalog, revocationList, issuerKeys, cachedAt, sessions>>

\* The service costs a fee is computed on, in cents
FeeCosts == {-1, 0, 1, 40, 101, 1000}

\* The fee rates, in basis points
FeeBasisPoints == {-1, 0, 1, 200, 250, 10000, 10001}

\* A caller invokes computePlatformFee
CallComputePlatformFee ==
    /\ last = None
    /\ \E serviceCostCents \in FeeCosts, basisPoints \in FeeBasisPoints :
          last' = Some([op |-> "computePlatformFee",
                        serviceCostCents |-> serviceCostCents,
                        basisPoints |-> basisPoints,
                        result |-> computePlatformFee(serviceCostCents, basisPoints)])
    /\ UNCHANGED <<calls, config, upstream, refresh, anonymousPermits, now, limits, buckets, catalog, revocationList, issuerKeys, cachedAt, sessions>>

NextCommerce == Tick \/ IssueAndVerifyReceipt \/ CallComputePlatformFee \/ Return

\* Receipts issued, modified and verified, and fees computed, on drawn inputs
SpecCommerce == InitFunctions /\ [][NextCommerce]_vars

-----------------------------------------------------------------------------
(* C24: a receipt verifies as issued *)

\* A receipt verification is returning for a receipt that was issued
ReturningReceipt ==
    Returning("verifyConsumptionAttestation") /\ "proof" \in DOMAIN Val(last).issued

\* C24: for every well-formed parameter set (either pricing model, units >= 0,
\* duration_ms absent or >= 0, basis points >= 0, with or without a nonce) the
\* receipt the issuer produces is valid for the verifier that expects the
\* issued nonce or none
C24_IssuedReceiptVerifies ==
    (/\ ReturningReceipt
     /\ Val(last).tamper = "none"
     /\ Val(last).expected_nonce \in {None, Val(last).params.request_nonce})
        => Val(last).result = Returned([valid |-> TRUE, error |-> Undefined])

-----------------------------------------------------------------------------
(* C25: a modified receipt does not verify *)

\* C25: a receipt whose cost_cents, platform_fee_cents or effective-constraints
\* snapshot was changed after issuance, with the proof left unchanged, is
\* invalid; without a nonce check the error is a cost mismatch, a platform-fee
\* mismatch or a signature error
C25_TamperedReceiptInvalid ==
    (ReturningReceipt /\ Val(last).tamper # "none")
        => /\ "value" \in DOMAIN Val(last).result
           /\ ~Val(last).result.value.valid
           /\ Val(last).expected_nonce = None
                  => Val(last).result.value.error
                         \in {"Cost mismatch", "Platform fee mismatch", "Invalid signature"}

\* A receipt costing nothing had its fee rate changed, which leaves cost and
\* fee consistent, and was rejected for its signature
C25_Witness ==
    /\ ReturningReceipt
    /\ Val(last).tamper = "basis_points"
    /\ Val(last).issued.consumption.cost_cents = 0
    /\ Val(last).expected_nonce = None
    /\ Val(last).result = Returned([valid |-> FALSE, error |-> "Invalid signature"])

-----------------------------------------------------------------------------
(* C26: the nonce is checked first *)

\* C26: when an expected nonce is supplied and the receipt's nonce differs
\* from it or is absent, the receipt is invalid with the nonce-mismatch error,
\* whatever the signature and the amounts are
C26_NonceCheckedFirst ==
    (/\ ReturningReceipt
     /\ IsSome(Val(last).expected_nonce)
     /\ Tampered(Val(last).issued, Val(last).tamper).request_nonce
            # Val(last).expected_nonce)
        => Val(last).result =
               Returned([valid |-> FALSE,
                         error |-> "Request nonce mismatch - attestation may be fabricated"])

-----------------------------------------------------------------------------
(* C27: the platform fee *)

\* C27: computePlatformFee(cost, bps) is the least integer not below
\* cost * bps / 10000, is 0 exactly when cost * bps is 0, does not decrease
\* when either argument grows, and rejects a negative argument with an error
C27_PlatformFeeIsCeiling ==
    Returning("computePlatformFee")
        => IF Val(last).serviceCostCents < 0 \/ Val(last).basisPoints < 0
           THEN "thrown" \in DOMAIN Val(last).result
           ELSE /\ "value" \in DOMAIN Val(last).result
                /\ Val(last).result.value * 10000
                       >= Val(last).serviceCostCents * Val(last).basisPoints
                /\ (Val(last).result.value - 1) * 10000
                       < Val(last).serviceCostCents * Val(last).basisPoints
                /\ Val(last).result.value = 0
                       <=> Val(last).serviceCostCents * Val(last).basisPoints = 0
                /\ \A c \in FeeCosts, b \in FeeBasisPoints :
                       (Val(last).serviceCostCents <= c /\ Val(last).basisPoints <= b)
                           => Val(last).result.value <= computePlatformFee(c, b).value

\* Two percent of 101 cents is 2.02 cents and the fee is 3 cents
C27_Witness ==
    /\ Returning("computePlatformFee")
    /\ Val(last).serviceCostCents = 101
    /\ Val(last).basisPoints = 200
    /\ Val(last).result = Returned(3)

-----------------------------------------------------------------------------
(* transformToCanonical on drawn inputs *)

\* The number of digits after the decimal point of a matching string
FractionLength(str0) ==
    IF DotIndex(str0) = 0 THEN 0 ELSE Len(str0) - DotIndex(str0)

\* The Error transformToCanonical throws when it returns nothing: the format
\* test comes first, then the precision test of strict mode, then the
\* overflow check
TransformError(str0, precision, mode) ==
    IF ~IsNumericFormat(str0) THEN "Invalid numeric value"
    ELSE IF mode = "strict" /\ FractionLength(str0) > precision THEN "decimal places"
    ELSE "exceeds safe integer range"

\* What a call of transformToCanonical does: return a number or throw
TransformOutcome(value, precision, mode) ==
    IF IsSome(transformToCanonical(value, precision, mode))
    THEN Returned(Val(transformToCanonical(value, precision, mode)))
    ELSE Thrown(TransformError(trim(StringOf(value)), precision, mode))

MaxLen == 4         \* drawn strings have at most MaxLen characters
MaxPrecision == 2   \* precisions range over 0..MaxPrecision

\* The characters of the drawn strings
Alphabet == {"0", "1", "5", "9", ".", "-", "a"}

\* Every string of at most MaxLen characters of the alphabet
ShortStrings == UNION {[1..n -> Alphabet] : n \in 0..MaxLen}

\* The reference vectors of the unit tests, strings with blanks and a plus
\* sign, and a value at the edge of the safe range
ReferenceStrings ==
    {<<"1", ".", "0", "0", "5">>, <<"-", "1", ".", "0", "0", "5">>,
     <<"1", ".", "0", "0", "4">>, <<"4", ".", "9", "9", "5">>,
     <<"1", ".", "0", "0", "9">>, <<"-", "4", ".", "9", "9">>,
     <<" ", "1", ".", "5", " ">>, <<"+", "1", ".", "5">>, <<"1", " ", "5">>,
     <<"9", "0", "0", "7", ".", "5">>, <<"-", "9", "0", "0", "7", ".", "5">>,
     <<"9", "0", ".", "0", "7">>, <<"9", "0", ".", "0", "8">>}

\* The values transformToCanonical is called with: strings and numbers
TransformInputs ==
    {Str(chars) : chars \in ShortStrings \cup ReferenceStrings}
        \cup {Num(n) : n \in {-15, 0, 7}}

\* A caller invokes transformToCanonical on one value in each of the modes
CallTransformToCanonical ==
    /\ last = None
    /\ \E value \in TransformInputs, precision \in 0..MaxPrecision :
          last' = Some([op |-> "transformToCanonical",
                        value |-> value,
                        precision |-> precision,
                        strict |-> TransformOutcome(value, precision, "strict"),
                        truncate |-> TransformOutcome(value, precision, "truncate"),
                        round |-> TransformOutcome(value, precision, "round")])
    /\ UNCHANGED <<calls, config, upstream, refresh, anonymousPermits, now, limits, buckets, catalog, revocationList, issuerKeys, cachedAt, sessions>>

NextTransform == CallTransformToCanonical \/ Return

\* transformToCanonical on drawn values, precisions and modes
SpecTransform == InitFunctions /\ [][NextTransform]_vars

-----------------------------------------------------------------------------
(* Vocabulary of the properties of transformToCanonical *)

\* The input as the decimal it denotes: blanks around it removed
Denoted(value) == trim(StringOf(value))

\* An optionally signed digit string with an optional fraction
IsDecimal(str0) ==
    \E prefix \in {<< >>, <<"+">>, <<"-">>} :
    \E w \in 1..Len(str0) :
        /\ Len(str0) >= Len(prefix) + w
        /\ SubSeq(str0, 1, Len(prefix)) = prefix
        /\ \A i \in (Len(prefix) + 1)..(Len(prefix) + w) : IsDigit(str0[i])
        /\ \/ Len(str0) = Len(prefix) + w
           \/ /\ Len(str0) > Len(prefix) + w + 1
              /\ str0[Len(prefix) + w + 1] = "."
              /\ \A i \in (Len(prefix) + w + 2)..Len(str0) : IsDigit(str0[i])

\* The digits of a decimal, sign and point left out
DigitsOf(str0) == SelectSeq(str0, IsDigit)

\* The decimal as a fraction: Numerator(s) / 10 ^ FractionDigits(s)
Numerator(str0) ==
    IF Head(str0) = "-" THEN -ParseDigits(DigitsOf(str0)) ELSE ParseDigits(DigitsOf(str0))

\* The number of digits after the point
FractionDigits(str0) ==
    Cardinality({i \in DOMAIN str0 : \E j \in 1..(i - 1) : str0[j] = "."})

\* The absolute value
Abs(n) == IF n < 0 THEN -n ELSE n

\* n with the sign of the decimal
WithSignOf(str0, n) == IF Head(str0) = "-" THEN -n ELSE n

\* The outcome for a result computed in arbitrary precision: returned when
\* it is in the safe range, else the overflow error
InRangeOrOverflow(outcome, expected) ==
    IF Abs(expected) > MAX_SAFE_INTEGER
    THEN outcome = Thrown("exceeds safe integer range")
    ELSE outcome = Returned(expected)

\* A call of transformToCanonical is returning
ReturningTransform == Returning("transformToCanonical")

-----------------------------------------------------------------------------
(* C29: strict mode *)

-----------------------------------------------------------------------------
(* C30: truncate and round modes *)

\* The magnitude of the decimal with its fraction cut to the first P digits
CutMagnitude(str0, precision) ==
    Abs(Numerator(str0)) \div Pow10(FractionDigits(str0) - precision)

\* The (P+1)-th fractional digit of the decimal
NextDigit(str0, precision) ==
    (Abs(Numerator(str0)) \div Pow10(FractionDigits(str0) - precision - 1)) % 10

\* C30: for a decimal with more than P fractional digits, truncate mode
\* returns the value cut to its first P fractional digits (toward zero), round
\* mode returns the cut magnitude plus 1 iff the (P+1)-th fractional digit is
\* at least 5, with the sign applied afterwards, each when it lies in the safe
\* range, and the two results differ by at most 1
C30_TruncateAndRound ==
    (/\ ReturningTransform
     /\ IsDecimal(Denoted(Val(last).value))
     /\ FractionDigits(Denoted(Val(last).value)) > Val(last).precision)
        => /\ InRangeOrOverflow(Val(last).truncate,
                  WithSignOf(Denoted(Val(last).value),
                             CutMagnitude(Denoted(Val(last).value), Val(last).precision)))
           /\ InRangeOrOverflow(Val(last).round,
                  WithSignOf(Denoted(Val(last).value),
                             CutMagnitude(Denoted(Val(last).value), Val(last).precision)
                                 + (IF NextDigit(Denoted(Val(last).value),
                                                 Val(last).precision) >= 5
                                    THEN 1 ELSE 0)))
           /\ ("value" \in DOMAIN Val(last).truncate /\ "value" \in DOMAIN Val(last).round)
                  => Abs(Val(last).round.value - Val(last).truncate.value) <= 1

\* -1.005 at precision 2 was truncated to -100 and rounded to -101
C30_Witness ==
    /\ ReturningTransform
    /\ Val(last).value = Str(<<"-", "1", ".", "0", "0", "5">>)
    /\ Val(last).precision = 2
    /\ Val(last).truncate = Returned(-100)
    /\ Val(last).round = Returned(-101)

-----------------------------------------------------------------------------
(* C31: the safe-integer range *)

\* The result of a mode in arbitrary precision, for a decimal the mode accepts
ExactResult(str0, precision, mode) ==
    IF FractionDigits(str0) <= precision
    THEN Numerator(str0) * Pow10(precision - FractionDigits(str0))
    ELSE WithSignOf(str0,
                    CutMagnitude(str0, precision)
                        + (IF mode = "round" /\ NextDigit(str0, precision) >= 5
                           THEN 1 ELSE 0))

\* The mode has a result for the decimal: strict mode has none beyond P digits
Accepts(str0, precision, mode) ==
    IsDecimal(str0) /\ ~(mode = "strict" /\ FractionDigits(str0) > precision)

\* C31: transformToCanonical returns no value outside the safe range; a result
\* whose magnitude in arbitrary precision (the +1 of rounding included)
\* exceeds MAX_SAFE_INTEGER is rejected with the overflow error, and every
\* result up to and including that magnitude is returned exactly
C31_SafeRange ==
    ReturningTransform
        => \A mode \in {"strict", "truncate", "round"} :
              /\ "value" \in DOMAIN Val(last)[mode]
                     => Abs(Val(last)[mode].value) <= MAX_SAFE_INTEGER
              /\ Accepts(Denoted(Val(last).value), Val(last).precision, mode)
                     => InRangeOrOverflow(Val(last)[mode],
                            ExactResult(Denoted(Val(last).value), Val(last).precision, mode))

\* 9007.5 at precision 0 was truncated to the largest safe integer and
\* rejected when rounded one beyond it
C31_Witness ==
    /\ ReturningTransform
    /\ Val(last).value = Str(<<"9", "0", "0", "7", ".", "5">>)
    /\ Val(last).precision = 0
    /\ Val(last).truncate = Returned(MAX_SAFE_INTEGER)
    /\ Val(last).round = Thrown("exceeds safe integer range")

-----------------------------------------------------------------------------
(* The session store under interleaved calls *)

\* The hosts' requests that call into the session store, one call each
Callers == {"a", "b", "c"}

\* The session ids of the interleaved calls
StoreSessionIds == {"s1", "s2"}

\* The passport a host binds with setPassport: the valid one, requiring approval
BoundPassport ==
    [SafeDefaultPassport EXCEPT
        !.permissions = <<[permission_key |-> "flights",
                           constraints |-> [k \in {KApproval} |-> Bool(TRUE)]]>>]

\* The Session object a call of getOrCreateSession creates; `ref` is the
\* identity of the object, the call that created it
NewSession(caller, sessionId, t) ==
    [session_id |-> sessionId, passport |-> None, created_at |-> t,
     last_activity |-> t, ref |-> caller]

\* this.sessions.set(sessionId, session)
SessionsSet(sess, sessionId, session) ==
    [id \in DOMAIN sess \cup {sessionId} |-> IF id = sessionId THEN session ELSE sess[id]]

\* The frame of a call that returned the session object `ref`
ReturnedFrame(sessionId, ref, issued) ==
    [op |-> "getOrCreateSession", pc |-> "returned", sessionId |-> sessionId,
     session |-> None, held |-> ref, issued |-> issued]

\* calls with the frame of one caller set
WithFrame(frames, caller, frame) ==
    [c \in DOMAIN frames \cup {caller} |-> IF c = caller THEN frame ELSE frames[c]]

\* getOrCreateSession(sessionId) is called and runs to its return or to the
\* await of issueSafeDefault
GetOrCreateBegins ==
    \E caller \in Callers \ DOMAIN calls, sessionId \in StoreSessionIds :
        /\ IF sessionId \in DOMAIN sessions
           THEN /\ sessions' = [sessions EXCEPT ![sessionId].last_activity = now]
                /\ calls' = WithFrame(calls, caller,
                                ReturnedFrame(sessionId, sessions[sessionId].ref, None))
           ELSE IF config.safe_default.enabled /\ config.safe_default.auto_issue
           THEN /\ sessions' = sessions
                /\ calls' = WithFrame(calls, caller,
                                [op |-> "getOrCreateSession", pc |-> "issueSafeDefault",
                                 sessionId |-> sessionId,
                                 session |-> Some(NewSession(caller, sessionId, now)),
                                 held |-> Undefined, issued |-> None])
           ELSE /\ sessions' = SessionsSet(sessions, sessionId,
                                           NewSession(caller, sessionId, now))
                /\ calls' = WithFrame(calls, caller, ReturnedFrame(sessionId, caller, None))
        /\ UNCHANGED <<config, upstream, refresh, anonymousPermits, now, limits, buckets, catalog, revocationList, issuerKeys, cachedAt, last>>

\* issueSafeDefault settles for a waiting call: the passport, if one was
\* issued, is put on the call's session object, the object is stored under
\* the session id and returned
IssueSafeDefaultSettles ==
    \E caller \in DOMAIN calls, issued \in Issuances :
        /\ calls[caller].pc = "issueSafeDefault"
        /\ sessions' = SessionsSet(sessions, calls[caller].sessionId,
                           [Val(calls[caller].session) EXCEPT
                               !.passport = IF IsSome(issued)
                                            THEN Some(buildPassportIndex(Val(issued)))
                                            ELSE None])
        /\ calls' = WithFrame(calls, caller,
                        ReturnedFrame(calls[caller].sessionId, caller, issued))
        /\ UNCHANGED <<config, upstream, refresh, anonymousPermits, now, limits, buckets, catalog, revocationList, issuerKeys, cachedAt, last>>

\* The host binds a passport to a session that exists; the frame of the host
\* records the binding
HostSetsPassport ==
    \E sessionId \in StoreSessionIds :
        /\ "host" \notin DOMAIN calls
        /\ sessionId \in DOMAIN sessions
        /\ sessions' = [setPassport(sessions, sessionId, BoundPassport, now)
                            EXCEPT ![sessionId].ref = sessions[sessionId].ref]
        /\ calls' = WithFrame(calls, "host",
                        [op |-> "setPassport", pc |-> "returned", sessionId |-> sessionId,
                         session |-> None, held |-> sessions[sessionId].ref,
                         issued |-> None])
        /\ UNCHANGED <<config, upstream, refresh, anonymousPermits, now, limits, buckets, catalog, revocationList, issuerKeys, cachedAt, last>>

\* The safe-default settings of a server: disabled, enabled without and
\* with issuance to new sessions
StoreConfigurations ==
    {[DefaultConfiguration EXCEPT !.safe_default = [enabled |-> e, auto_issue |-> a]] :
        e \in BOOLEAN, a \in BOOLEAN}

InitStore ==
    /\ now = 0
    /\ limits = configureRateLimits(Tools)
    /\ buckets = NoBuckets
    /\ catalog = None
    /\ revocationList = {}
    /\ issuerKeys = NoKeys
    /\ cachedAt = [revocation |-> 0, issuerKeys |-> 0]
    /\ sessions = [s \in {} |-> None]
    /\ calls = NoCalls
    /\ config \in StoreConfigurations
    /\ upstream = Upstream0
    /\ refresh = NotRefreshing
    /\ anonymousPermits = 0
    /\ last = None

NextStore == Tick \/ GetOrCreateBegins \/ IssueSafeDefaultSettles \/ HostSetsPassport

\* Calls of getOrCreateSession and setPassport interleaved at their awaits
SpecStore == InitStore /\ [][NextStore]_vars

-----------------------------------------------------------------------------
(* C32: interleaved get-or-create *)

\* The calls of getOrCreateSession for a session id
CallsFor(sessionId) ==
    {c \in DOMAIN calls : calls[c].op = "getOrCreateSession" /\ calls[c].sessionId = sessionId}

\* No call is waiting
Quiescent == \A c \in DOMAIN calls : calls[c].pc = "returned"

\* C32: when the overlapping getOrCreateSession calls for a session id have
\* returned, every caller holds the session object stored under that id, at
\* most one safe-default credential was issued for it, and a credential bound
\* to the session meanwhile is still the session's credential
C32_InterleavedGetOrCreate ==
    Quiescent
        => \A sessionId \in StoreSessionIds :
              /\ \A c \in CallsFor(sessionId) : calls[c].held = sessions[sessionId].ref
              /\ Cardinality({c \in CallsFor(sessionId) : IsSome(calls[c].issued)}) <= 1
              /\ ("host" \in DOMAIN calls /\ calls["host"].sessionId = sessionId)
                     => sessions[sessionId].passport = Some(buildPassportIndex(BoundPassport))

-----------------------------------------------------------------------------
(* The denial response and its suggestions *)

\* The 500 ms of the timer formatDenialResponse races the suggestions
\* against, as one tick of the clock
SuggestionTimeoutMs == 1

\* The requests whose denial is being formatted
DenialCallers == {"a", "b"}

\* fetchSuggestions(verification, tool): the upgrade template of the denial
\* and the other tools of the registry, none of which has a risk level
fetchSuggestions(verification, tool) ==
    [templates |-> IF Val(verification.denial).upgrade_template # Undefined
                   THEN <<Val(verification.denial).upgrade_template>> ELSE << >>,
     alternative_tools |-> DOMAIN Tools \ {tool.name}]

\* formatPermissionDenied(verification, suggestions): the message and what is
\* appended to it
formatPermissionDenied(verification, suggestions) ==
    IF ~IsSome(verification.denial) THEN [message |-> "Permission denied", appended |-> None]
    ELSE [message |-> Val(verification.denial).message, appended |-> suggestions]

\* The ToolExecutionResult of formatDenialResponse
DenialResponse(verification, suggestions) ==
    [isError |-> TRUE,
     text |-> formatPermissionDenied(verification, suggestions),
     uniplex_denial |-> verification.denial,
     uniplex_suggestions |-> suggestions]

raceWinner_awaitsFetch(winner, settled) ==
    IF settled = "fetchSuggestions" THEN settled ELSE winner

\* Promise.race: the promise that settles first decides
raceWinner(winner, settled) == IF winner = "none" THEN settled ELSE winner

\* The server with its catalog and issuer keys loaded
InitDenial ==
    /\ now = 0
    /\ limits = configureRateLimits(Tools)
    /\ buckets = NoBuckets
    /\ catalog = Some(updateCatalog(TheCatalog, 0))
    /\ revocationList = {}
    /\ issuerKeys = TrustedKeys
    /\ cachedAt = [revocation |-> 0, issuerKeys |-> 0]
    /\ sessions = [s \in {} |-> None]
    /\ calls = NoCalls
    /\ config = DefaultConfiguration
    /\ upstream = Upstream0
    /\ refresh = NotRefreshing
    /\ anonymousPermits = 0
    /\ last = None

\* A tools/call request is verified and denied: formatDenialResponse starts
\* fetchSuggestions and the timer and awaits their race
DenialBegins ==
    \E caller \in DenialCallers \ DOMAIN calls, toolName \in DOMAIN Tools,
       passport \in {None} \cup {Some(buildPassportIndex(p)) : p \in ServerPassports} :
        LET out == handleCallTool(toolName, EmptyMap, passport, catalog, revocationList,
                                  issuerKeys, limits, buckets, now, FALSE)
        IN  /\ now + SuggestionTimeoutMs <= MaxTime
            /\ ~Val(out.verification).allowed
            /\ buckets' = out.buckets
            /\ calls' = WithFrame(calls, caller,
                            [op |-> "formatDenialResponse", pc |-> "race",
                             verification |-> Val(out.verification),
                             tool |-> Tools[toolName],
                             startedAt |-> now,
                             fetch |-> "pending", timer |-> "pending",
                             winner |-> "none",
                             response |-> None, respondedAt |-> Undefined])
    /\ UNCHANGED <<config, upstream, refresh, anonymousPermits, now, limits, catalog, revocationList, issuerKeys, cachedAt, sessions, last>>

\* The promise of fetchSuggestions resolves
FetchSuggestionsSettles(caller) ==
    /\ caller \in DOMAIN calls
    /\ calls[caller].pc = "race"
    /\ calls[caller].fetch = "pending"
    /\ calls' = [calls EXCEPT ![caller].fetch = "settled",
                              ![caller].winner = raceWinner(@, "fetchSuggestions")]
    /\ UNCHANGED <<config, upstream, refresh, anonymousPermits, now, limits, buckets, catalog, revocationList, issuerKeys, cachedAt, sessions, last>>

\* The timer of the race fires once its delay has passed
SuggestionTimerFires(caller) ==
    /\ caller \in DOMAIN calls
    /\ calls[caller].pc = "race"
    /\ calls[caller].timer = "pending"
    /\ now >= calls[caller].startedAt + SuggestionTimeoutMs
    /\ calls' = [calls EXCEPT ![caller].timer = "fired",
                              ![caller].winner = raceWinner(@, "timer")]
    /\ UNCHANGED <<config, upstream, refresh, anonymousPermits, now, limits, buckets, catalog, revocationList, issuerKeys, cachedAt, sessions, last>>

\* The race has settled: formatDenialResponse resumes and returns the response
FormatDenialReturns(caller) ==
    /\ caller \in DOMAIN calls
    /\ calls[caller].pc = "race"
    /\ calls[caller].winner # "none"
    /\ calls' = [calls EXCEPT
                    ![caller].pc = "returned",
                    ![caller].respondedAt = now,
                    ![caller].response =
                        Some(DenialResponse(calls[caller].verification,
                                 IF calls[caller].winner = "timer" THEN None
                                 ELSE Some(fetchSuggestions(calls[caller].verification,
                                                            calls[caller].tool))))]
    /\ UNCHANGED <<config, upstream, refresh, anonymousPermits, now, limits, buckets, catalog, revocationList, issuerKeys, cachedAt, sessions, last>>

\* The clock advances when no timer is due and no settled race waits to resume
TimePasses ==
    /\ now < MaxTime
    /\ \A c \in DOMAIN calls :
          calls[c].pc = "race"
              => /\ calls[c].winner = "none"
                 /\ calls[c].timer = "pending"
                        => now < calls[c].startedAt + SuggestionTimeoutMs
    /\ now' = now + 1
    /\ anonymousPermits' = 0
    /\ UNCHANGED <<calls, config, upstream, refresh, limits, buckets, catalog, revocationList, issuerKeys, cachedAt, sessions, last>>

NextDenial ==
    \/ TimePasses
    \/ DenialBegins
    \/ \E caller \in DenialCallers :
          \/ FetchSuggestionsSettles(caller)
          \/ SuggestionTimerFires(caller)
          \/ FormatDenialReturns(caller)

\* The event loop lets time pass, fires due timers and resumes settled
\* awaits; nothing makes fetchSuggestions settle
DenialFairness ==
    /\ WF_vars(TimePasses)
    /\ \A caller \in DenialCallers : WF_vars(SuggestionTimerFires(caller))
    /\ \A caller \in DenialCallers : WF_vars(FormatDenialReturns(caller))

\* Denied tool calls whose suggestions may settle at any time or never
SpecDenial == InitDenial /\ [][NextDenial]_vars /\ DenialFairness

-----------------------------------------------------------------------------
(* C33: denials are not delayed by suggestions *)

\* The denial of a caller is being formatted
DenialPending(caller) == caller \in DOMAIN calls /\ calls[caller].pc = "race"

\* The denial response of a caller has been returned
DenialReturned(caller) == caller \in DOMAIN calls /\ calls[caller].pc = "returned"

\* A returned response came within the timeout, carries the denial's code and
\* message, and has no suggestions when the timer decided the race
DenialResponseInTime(caller) ==
    DenialReturned(caller)
        => /\ calls[caller].respondedAt <= calls[caller].startedAt + SuggestionTimeoutMs
           /\ Val(calls[caller].response).isError
           /\ Val(calls[caller].response).uniplex_denial = calls[caller].verification.denial
           /\ Val(calls[caller].response).text.message
                  = Val(calls[caller].verification.denial).message
           /\ calls[caller].fetch = "pending"
                  => /\ Val(calls[caller].response).uniplex_suggestions = None
                     /\ Val(calls[caller].response).text.appended = None

\* C33: a denial response is always produced, within the timeout, also when
\* fetchSuggestions never completes; a response produced on timeout has no
\* suggestions and carries the denial code and message
C33_DenialNotDelayed ==
    /\ [](\A caller \in DenialCallers : DenialResponseInTime(caller))
    /\ \A caller \in DenialCallers : DenialPending(caller) ~> DenialReturned(caller)

\* A denial was returned on timeout while its suggestions were still pending
C33_Witness ==
    \E caller \in DenialCallers :
        /\ DenialReturned(caller)
        /\ calls[caller].fetch = "pending"
        /\ calls[caller].timer = "fired"
        /\ Val(calls[caller].response).uniplex_suggestions = None
        /\ Val(calls[caller].response).uniplex_denial # None

-----------------------------------------------------------------------------
(* The execution of a permitted tool call and its audit record *)

\* What a tool's handler does: it returns a result JSON.stringify can
\* serialise, returns one it cannot (a BigInt, a cyclic object), or throws
HandlerOutcomes ==
    {[kind |-> "returns", serialisable |-> TRUE, error |-> Undefined],
     [kind |-> "returns", serialisable |-> FALSE, error |-> Undefined],
     [kind |-> "throws", serialisable |-> FALSE, error |-> "Error: upstream failed"],
     [kind |-> "throws", serialisable |-> FALSE, error |-> "Error: not found"]}

\* One step of a tool call that the audit log or the handler sees
Step(type, status) == [type |-> type, status |-> status]

\* logExecution: the audit id and the record it opens
logExecution(auditEnabled) ==
    IF ~auditEnabled THEN [auditId |-> "", trace |-> << >>]
    ELSE [auditId |-> "audit_1",
          trace |-> <<Step("tool_execution_start", Undefined)>>]

\* completeAuditLog(auditId, status): the completion it logs
completeAuditLog(auditId, status, auditEnabled) ==
    IF ~auditEnabled \/ auditId = "" THEN << >>
    ELSE <<Step("tool_execution_complete", status)>>

\* createAttestation: none without a passport
createAttestation(tool, passport) ==
    IF ~IsSome(passport) THEN None
    ELSE Some([action |-> tool.permission_key, result |-> "allowed"])

\* createConsumptionAttestation: none without a passport and its agent
createConsumptionAttestation(tool, passport) ==
    IF ~IsSome(passport) THEN None
    ELSE Some([permission_key |-> tool.permission_key])

catchBlock_returnsErrorResult(trace, auditId, auditEnabled, error) ==
    [trace |-> trace \o completeAuditLog(auditId, "error", auditEnabled),
     outcome |-> Returned([isError |-> TRUE, text |-> error,
                           uniplex_attestation |-> None,
                           uniplex_consumption |-> None])]

\* catch (error) { await this.completeAuditLog(auditId, 'error', error); throw error }
catchBlock(trace, auditId, auditEnabled, error) ==
    [trace |-> trace \o completeAuditLog(auditId, "error", auditEnabled),
     outcome |-> Thrown(error)]

\* The try block once the handler has returned: the success completion, the
\* attestations, and the response whose text is JSON.stringify(result)
afterHandler(trace, auditId, tool, passport, handled, auditEnabled, issueReceipts) ==
    IF ~handled.serialisable
    THEN catchBlock(trace \o completeAuditLog(auditId, "success", auditEnabled),
                    auditId, auditEnabled,
                    "TypeError: Do not know how to serialize a BigInt")
    ELSE [trace |-> trace \o completeAuditLog(auditId, "success", auditEnabled),
          outcome |-> Returned(
              [isError |-> FALSE, text |-> "result",
               uniplex_attestation |->
                   IF auditEnabled THEN createAttestation(tool, passport) ELSE None,
               uniplex_consumption |->
                   IF issueReceipts THEN createConsumptionAttestation(tool, passport)
                   ELSE None])]

\* handleCallTool after the permit: log the start, run the handler, complete
\* the audit record, respond or rethrow
executeTool(tool, passport, handled, auditEnabled, issueReceipts) ==
    IF handled.kind = "throws"
    THEN catchBlock(logExecution(auditEnabled).trace \o <<Step("handler", handled.kind)>>,
                    logExecution(auditEnabled).auditId, auditEnabled, handled.error)
    ELSE afterHandler(logExecution(auditEnabled).trace \o <<Step("handler", handled.kind)>>,
                      logExecution(auditEnabled).auditId, tool, passport, handled,
                      auditEnabled, issueReceipts)

\* A tools/call request is verified and, when permitted, executed
ExecuteToolCall ==
    /\ last = None
    /\ \E toolName \in DOMAIN Tools, handled \in HandlerOutcomes,
          auditEnabled \in BOOLEAN, issueReceipts \in BOOLEAN,
          passport \in {None} \cup {Some(buildPassportIndex(p)) : p \in ServerPassports} :
          LET out == verifyLocally(ServerParams(Tools[toolName], EmptyMap, passport,
                                                catalog, revocationList, issuerKeys),
                                   limits, buckets, now)
          IN  /\ buckets' = out.buckets
              /\ last' = Some(
                    [op |-> "executeTool", toolName |-> toolName,
                     hasPassport |-> IsSome(passport),
                     handled |-> handled, auditEnabled |-> auditEnabled,
                     issueReceipts |-> issueReceipts,
                     allowed |-> out.result.allowed,
                     execution |->
                        IF out.result.allowed
                        THEN executeTool(Tools[toolName], passport, handled,
                                         auditEnabled, issueReceipts)
                        ELSE [trace |-> << >>,
                              outcome |-> Returned([isError |-> TRUE,
                                                    text |-> "Permission denied",
                                                    uniplex_attestation |-> None,
                                                    uniplex_consumption |-> None])]])
    /\ UNCHANGED <<calls, config, upstream, refresh, anonymousPermits, now, limits, catalog, revocationList, issuerKeys, cachedAt, sessions>>

NextExecution == Tick \/ ExecuteToolCall \/ Return

\* Tool calls against the loaded catalog, with every outcome of the handler
SpecExecution == InitDenial /\ [][NextExecution]_vars

-----------------------------------------------------------------------------
(* C34: a throwing handler *)

\* A permitted tool call is returning
ReturningExecution == Returning("executeTool") /\ Val(last).allowed

\* The steps of the returning call of the given type and status
StepsOf(type, status) ==
    {i \in DOMAIN Val(last).execution.trace :
        Val(last).execution.trace[i] = Step(type, status)}

-----------------------------------------------------------------------------
(* C40: one audit record per permitted call, closed once *)

\* C40: with audit enabled a permitted call opens one record before the
\* handler runs and closes it exactly once, with success iff the handler
\* returned and error iff it threw; a denied call opens none
C40_AuditRecordClosedOnce ==
    (Returning("executeTool") /\ Val(last).auditEnabled)
        => IF ~Val(last).allowed THEN Val(last).execution.trace = << >>
           ELSE /\ Val(last).execution.trace[1] = Step("tool_execution_start", Undefined)
                /\ Cardinality(StepsOf("tool_execution_start", Undefined)) = 1
                /\ StepsOf("handler", Val(last).handled.kind) = {2}
                /\ Cardinality(StepsOf("tool_execution_complete", "success"))
                       = (IF Val(last).handled.kind = "returns" THEN 1 ELSE 0)
                /\ Cardinality(StepsOf("tool_execution_complete", "error"))
                       = (IF Val(last).handled.kind = "throws" THEN 1 ELSE 0)

-----------------------------------------------------------------------------
(* C35: only permits are counted *)

\* The bucket key of the returning verifyLocally call
LastBucketKey == getBucketKey(LastCall.action, LastCall.passport_id)

\* Every bucket but the returning call's own is as it was before the call
OtherBucketsUnchanged ==
    /\ DOMAIN buckets \ {LastBucketKey} = DOMAIN BucketsBefore \ {LastBucketKey}
    /\ \A k \in DOMAIN BucketsBefore \ {LastBucketKey} : buckets[k] = BucketsBefore[k]

\* C35: a verifyLocally call that denies, at whichever step, leaves every
\* rate-limit bucket as it was; a permitted call on an action with a
\* registered limit counts one more permit in the open window of its own
\* (action, credential) and touches no other bucket
C35_OnlyPermitsCounted ==
    Returning("verifyLocally")
        => IF ~LastResult.allowed THEN buckets = BucketsBefore
           ELSE /\ OtherBucketsUnchanged
                /\ (LastCall.hasPassport /\ LastCall.action \in DOMAIN limits)
                       => /\ LiveCount(buckets, now, LastCall.action, LastCall.passport_id)
                                = PermitsInWindow + 1
                          /\ buckets[LastBucketKey].resetAt > now
                /\ ~(LastCall.hasPassport /\ LastCall.action \in DOMAIN limits)
                       => buckets = BucketsBefore

\* A call denied with rate_limited has left its full bucket as it was, and
\* the bucket holds the permits counted before it
C35_Witness ==
    /\ ReturningAtRateStep
    /\ Denied(LastResult, {"rate_limited"})
    /\ LastBucketKey \in DOMAIN buckets
    /\ buckets[LastBucketKey].count >= 1
    /\ buckets = BucketsBefore

-----------------------------------------------------------------------------
(* The session store and the credentials it holds *)

\* clearPassport(sessionId) at time t: the sessions map afterwards
clearPassport(sess, sessionId, t) ==
    IF sessionId \in DOMAIN sess
    THEN [sess EXCEPT ![sessionId].passport = None, ![sessionId].last_activity = t]
    ELSE sess

\* cleanupInactiveSessions(maxInactiveMs) at time t: the sessions map afterwards
cleanupInactiveSessions(sess, maxInactiveMs, t) ==
    [id \in {i \in DOMAIN sess : ~(t - sess[i].last_activity > maxInactiveMs)} |-> sess[id]]

\* cleanupExpiredPassports() at time t: the sessions map afterwards
cleanupExpiredPassports(sess, t) ==
    [id \in DOMAIN sess |->
        IF IsSome(sess[id].passport) /\ Expired(Val(sess[id].passport), t)
        THEN [sess[id] EXCEPT !.passport = None]
        ELSE sess[id]]

\* The claims a passport lists
ClaimOf(key, constraints) == [permission_key |-> key, constraints |-> constraints]

\* The claims lists of the passports a host binds: one claim, two claims, the
\* same key twice, none
ClaimLists ==
    {<<ClaimOf("flights", EmptyMap)>>,
     <<ClaimOf("flights:search", EmptyMap)>>,
     <<ClaimOf("flights", EmptyMap), ClaimOf("flights:search", EmptyMap)>>,
     <<ClaimOf("flights", EmptyMap), ClaimOf("flights", [k \in {KApproval} |-> Bool(TRUE)])>>,
     << >>}

\* The passports a host binds: as issued, without an index
UnindexedPassports ==
    {[SafeDefaultPassport EXCEPT !.permissions = claims, !.expires_at = expires] :
        claims \in ClaimLists, expires \in {1, MaxTime + 1}}

\* The same passports carrying a claimsByKey of their own: the index built
\* from their claims, or one left over from another claims list
LoadedPassports ==
    UnindexedPassports
        \cup {buildPassportIndex(p) : p \in UnindexedPassports}
        \cup {[f \in DOMAIN p \cup {"claimsByKey"} |->
                  IF f = "claimsByKey"
                  THEN [k \in {"flights"} |-> ClaimOf("flights", EmptyMap)]
                  ELSE p[f]] : p \in UnindexedPassports}

\* The session of the host's agent
HostSessionIds == {"s1"}

\* The credential a session presented last, kept with the session's id
PresentedFrame(op, sessionId, passport) ==
    [op |-> op, pc |-> "returned", sessionId |-> sessionId,
     passport_id |-> passport.passport_id, expires_at |-> passport.expires_at]

\* The frames of the sessions that remain
FramesOf(frames, ids) == [id \in DOMAIN frames \cap ids |-> frames[id]]

InitSessions ==
    /\ now = 0
    /\ limits = configureRateLimits(Tools)
    /\ buckets = NoBuckets
    /\ catalog = Some(updateCatalog(TheCatalog, 0))
    /\ revocationList = {}
    /\ issuerKeys = TrustedKeys
    /\ cachedAt = [revocation |-> 0, issuerKeys |-> 0]
    /\ sessions = [s \in {} |-> None]
    /\ calls = NoCalls
    /\ config \in StoreConfigurations
    /\ upstream = Upstream0
    /\ refresh = NotRefreshing
    /\ anonymousPermits = 0
    /\ last = None

\* getOrCreateSession(sessionId) run to its end
OpenSession ==
    /\ last = None
    /\ \E sessionId \in HostSessionIds, issued \in Issuances :
          /\ sessionId \notin DOMAIN sessions
          /\ sessions' = getOrCreateSessionWith(config.safe_default, sessions,
                                                sessionId, now, issued).sessions
          /\ calls' = IF IsSome(sessions'[sessionId].passport)
                      THEN WithFrame(calls, sessionId,
                               PresentedFrame("issueSafeDefault", sessionId,
                                              Val(sessions'[sessionId].passport)))
                      ELSE calls
    /\ UNCHANGED <<config, upstream, refresh, anonymousPermits, now, limits, buckets, catalog, revocationList, issuerKeys, cachedAt, last>>

\* The host binds a passport to a session
StorePassport ==
    /\ last = None
    /\ \E sessionId \in DOMAIN sessions, passport \in LoadedPassports :
          /\ sessions' = setPassport(sessions, sessionId, passport, now)
          /\ calls' = WithFrame(calls, sessionId,
                          PresentedFrame("setPassport", sessionId, passport))
    /\ UNCHANGED <<config, upstream, refresh, anonymousPermits, now, limits, buckets, catalog, revocationList, issuerKeys, cachedAt, last>>

\* The host binds the passport a session holds once more
RebindPassport ==
    /\ last = None
    /\ \E sessionId \in DOMAIN sessions :
          /\ IsSome(sessions[sessionId].passport)
          /\ sessions' = setPassport(sessions, sessionId,
                                     Val(sessions[sessionId].passport), now)
          /\ last' = Some([op |-> "rebind", sessionId |-> sessionId,
                           indexBefore |-> Val(sessions[sessionId].passport).claimsByKey])
    /\ UNCHANGED <<calls, config, upstream, refresh, anonymousPermits, now, limits, buckets, catalog, revocationList, issuerKeys, cachedAt>>

\* The host unbinds the passport of a session
ClearPassport ==
    /\ last = None
    /\ \E sessionId \in DOMAIN sessions :
          /\ IsSome(sessions[sessionId].passport)
          /\ sessions' = clearPassport(sessions, sessionId, now)
          /\ calls' = FramesOf(calls, DOMAIN sessions \ {sessionId})
    /\ UNCHANGED <<config, upstream, refresh, anonymousPermits, now, limits, buckets, catalog, revocationList, issuerKeys, cachedAt, last>>

\* The host purges the sessions inactive for longer than a threshold
CleanupInactiveSessions ==
    /\ last = None
    /\ \E maxInactiveMs \in {0, WindowMs} :
          /\ sessions' = cleanupInactiveSessions(sessions, maxInactiveMs, now)
          /\ sessions' # sessions
          /\ calls' = FramesOf(calls, DOMAIN sessions')
    /\ UNCHANGED <<config, upstream, refresh, anonymousPermits, now, limits, buckets, catalog, revocationList, issuerKeys, cachedAt, last>>

\* The host clears the passports that have expired
CleanupExpiredPassports ==
    /\ last = None
    /\ sessions' = cleanupExpiredPassports(sessions, now)
    /\ sessions' # sessions
    /\ UNCHANGED <<calls, config, upstream, refresh, anonymousPermits, now, limits, buckets, catalog, revocationList, issuerKeys, cachedAt, last>>

\* A tools/call request of a session that exists
SessionCall ==
    /\ last = None
    /\ \E sessionId \in DOMAIN sessions, toolName \in DOMAIN Tools :
          LET sess == getOrCreateSession(sessions, sessionId, now)
              out == handleCallTool(toolName, EmptyMap, sess[sessionId].passport,
                                    catalog, revocationList, issuerKeys,
                                    limits, buckets, now, FALSE)
              anonymous == /\ ~IsSome(sess[sessionId].passport)
                           /\ Val(out.verification).allowed
          IN  /\ anonymous => anonymousPermits < MaxAnonymous
              /\ sessions' = sess
              /\ buckets' = out.buckets
              /\ anonymousPermits' = anonymousPermits + (IF anonymous THEN 1 ELSE 0)
              /\ last' = Some([op |-> "sessionCall", sessionId |-> sessionId,
                               toolName |-> toolName,
                               verification |-> Val(out.verification)])
    /\ UNCHANGED <<calls, config, upstream, refresh, now, limits, catalog, revocationList, issuerKeys, cachedAt>>

NextSessions ==
    \/ Tick
    \/ OpenSession
    \/ StorePassport
    \/ RebindPassport
    \/ ClearPassport
    \/ CleanupInactiveSessions
    \/ CleanupExpiredPassports
    \/ SessionCall
    \/ Return

\* The operations of the session store, each run to its end, and the tool
\* calls of its sessions
SpecSessions == InitSessions /\ [][NextSessions]_vars

-----------------------------------------------------------------------------
(* C36: the claims-by-key index *)

\* The index is a function of the claims list: its keys are the permission
\* keys in the list and each maps to a claim of the list with that key
IndexOfItsClaims(passport) ==
    /\ DOMAIN passport.claimsByKey
           = {passport.permissions[i].permission_key : i \in DOMAIN passport.permissions}
    /\ \A k \in DOMAIN passport.claimsByKey :
           \E i \in DOMAIN passport.permissions :
               /\ passport.permissions[i].permission_key = k
               /\ passport.claimsByKey[k] = passport.permissions[i]

\* C36: every credential a session holds, bound by setPassport or issued as
\* a safe default, has the index of its own claims list; binding a held
\* credential again leaves its index as it was
C36_IndexIsFunctionOfClaims ==
    /\ \A id \in DOMAIN sessions :
           IsSome(sessions[id].passport)
               => /\ "claimsByKey" \in DOMAIN Val(sessions[id].passport)
                  /\ IndexOfItsClaims(Val(sessions[id].passport))
    /\ Returning("rebind")
           => Val(sessions[Val(last).sessionId].passport).claimsByKey
                  = Val(last).indexBefore

\* A session holds a passport that lists one key twice and was bound again
C36_Witness ==
    /\ Returning("rebind")
    /\ Len(Val(sessions[Val(last).sessionId].passport).permissions) = 2
    /\ DOMAIN Val(sessions[Val(last).sessionId].passport).claimsByKey = {"flights"}
    /\ Val(last).indexBefore = Val(sessions[Val(last).sessionId].passport).claimsByKey

-----------------------------------------------------------------------------
(* C37: no downgrade once a credential was presented *)

\* C37: in a session that presented a credential which has expired since, a
\* tool call is denied, whatever the store's operations did in between
C37_NoDowngradeAfterExpiry ==
    (/\ Returning("sessionCall")
     /\ Val(last).sessionId \in DOMAIN calls
     /\ calls[Val(last).sessionId].expires_at < now)
        => ~Val(last).verification.allowed

-----------------------------------------------------------------------------
(* The request context of tools with several constraint mappings *)

\* A constraint mapping of a tool
Mapping(key, source, path, fixed, transform, precision, mode) ==
    [key |-> key, source |-> source, input_path |-> path, fixed_value |-> fixed,
     transform |-> transform, precision |-> precision, transform_mode |-> mode]

\* The mappings drawn: the price in cents, the fare in cents, truncated,
\* under a key that contains 'price', the fare in cents under the cost key,
\* the region as it is, a fixed rate, and a fixed mapping without a value
ContextMappings ==
    {Mapping(KCost, "input", "price", None, "dollars_to_cents", Undefined, Undefined),
     Mapping("custom:price", "input", "fare", None, "custom", Undefined, "truncate"),
     Mapping(KCost, "input", "fare", None, "custom", Undefined, Undefined),
     Mapping(KRegion, "input", "region", None, Undefined, Undefined, Undefined),
     Mapping(KRatePerMinute, "fixed", Undefined, Some(Num(1)), Undefined, Undefined, Undefined),
     Mapping(KRatePerHour, "fixed", Undefined, None, Undefined, Undefined, Undefined)}

\* The longest list of mappings drawn
MaxMappings == 3

\* The lists of mappings of a tool
MappingLists ==
    UNION {[1..n -> ContextMappings] : n \in 0..MaxMappings}

\* The arguments of a call: each field absent, well-formed, or such that its
\* transform throws
ContextInputs ==
    {[f \in fields |->
         IF f = "price" THEN price ELSE IF f = "fare" THEN fare
         ELSE Str(<<"e", "u">>)] :
        fields \in SUBSET {"price", "fare", "region"},
        price \in {Str(<<"0", ".", "0", "1">>), Str(<<"0", ".", "0", "1", "5">>),
                   Str(<<"a", "b", "c">>)},
        fare \in {Str(<<"2", ".", "5", "5", "5">>), Str(<<"x">>)}}

\* buildRequestContext is called for a tool with drawn mappings
CallBuildRequestContext ==
    /\ last = None
    /\ \E constraints \in MappingLists, input \in ContextInputs :
          last' = Some([op |-> "buildRequestContext",
                        constraints |-> constraints, input |-> input,
                        context |-> buildRequestContext(
                                        [name |-> "tool", permission_key |-> "flights",
                                         constraints |-> constraints], input)])
    /\ UNCHANGED <<calls, config, upstream, refresh, anonymousPermits, now, limits, buckets, catalog, revocationList, issuerKeys, cachedAt, sessions>>

NextContext == CallBuildRequestContext \/ Return

SpecContext == InitFunctions /\ [][NextContext]_vars

-----------------------------------------------------------------------------
(* C38: failing mappings are skipped *)

\* The value mapping i of the returning call binds, None when its value is
\* undefined or its extraction or transform fails
BoundBy(i) ==
    transformedValue(Val(last).constraints[i],
                     extractConstraintValue(Val(last).constraints[i], Val(last).input))

\* The mappings of the returning call that succeeded with a defined value
SucceededMappings == {i \in DOMAIN Val(last).constraints : IsSome(BoundBy(i))}

\* The succeeded mappings that bind the given context key
BindersOf(key) ==
    {i \in SucceededMappings :
        \/ Val(last).constraints[i].key = key
        \/ key = KAmount /\ NamesAmount(Val(last).constraints[i].key)}

\* C38: the context holds exactly the bindings of the mappings that succeeded
\* with a defined value, the later of two for one key, and amount_canonical
\* for those whose key contains 'cost' or 'price'; a mapping that fails
\* binds nothing and changes nothing else
C38_FailedMappingsSkipped ==
    Returning("buildRequestContext")
        => /\ DOMAIN Val(last).context
                  = {Val(last).constraints[i].key : i \in SucceededMappings}
                        \cup (IF BindersOf(KAmount) # {} THEN {KAmount} ELSE {})
           /\ \A key \in DOMAIN Val(last).context :
                  \E i \in BindersOf(key) :
                      /\ \A j \in BindersOf(key) : j <= i
                      /\ Val(last).context[key] = Val(BoundBy(i))

\* A call whose first mapping threw in its transform, whose second had no
\* value, and whose third bound the fare under a key that contains 'price'
C38_Witness ==
    /\ Returning("buildRequestContext")
    /\ Len(Val(last).constraints) = 3
    /\ SucceededMappings = {3}
    /\ "price" \in DOMAIN Val(last).input
    /\ Val(last).constraints[1].input_path = "price"
    /\ Val(last).constraints[2].source = "fixed"
    /\ Val(last).context = [k \in {"custom:price", KAmount} |-> Num(255)]

-----------------------------------------------------------------------------
(* Starting and stopping the background refresh *)

\* The calls of startBackgroundRefresh a host makes
Starters == {"start1", "start2"}

\* No refresh was started: no interval is scheduled, no timer's fetch is in
\* flight, stopBackgroundRefresh was not called
NotStarted ==
    [started |-> FALSE, timers |-> {}, pending |-> {},
     stopped |-> FALSE, firedSinceStop |-> FALSE]

\* The intervals one call of startBackgroundRefresh schedules and pushes to
\* refreshIntervals
IntervalsOf(starter) == {<<starter, "catalog">>, <<starter, "revocations">>}

\* The cache after a fetch of an entry completed with `response`
Refreshed(entry, response) ==
    LET out == refreshEntry(entry, CacheState, response, now)
    IN  /\ catalog' = out.state.catalog
        /\ revocationList' = out.state.revocationList
        /\ issuerKeys' = out.state.issuerKeys
        /\ cachedAt' = [revocation |-> out.state.revocationCachedAt,
                        issuerKeys |-> out.state.issuerKeysCachedAt]

InitLifecycle ==
    /\ now = 0
    /\ limits = configureRateLimits(Tools)
    /\ buckets = NoBuckets
    /\ catalog = None
    /\ revocationList = {}
    /\ issuerKeys = NoKeys
    /\ cachedAt = [revocation |-> 0, issuerKeys |-> 0]
    /\ sessions = [s \in {} |-> None]
    /\ calls = NoCalls
    /\ config = DefaultConfiguration
    /\ upstream = Upstream0
    /\ refresh = NotStarted
    /\ anonymousPermits = 0
    /\ last = None

\* startBackgroundRefresh up to its await: refreshAll starts the three fetches
StartBegins(starter) ==
    /\ starter \notin DOMAIN calls
    /\ calls' = WithFrame(calls, starter,
                    [op |-> "startBackgroundRefresh", pc |-> "refreshAll",
                     pending |-> Entries])
    /\ refresh' = [refresh EXCEPT !.started = TRUE, !.stopped = FALSE,
                                  !.firedSinceStop = FALSE]
    /\ UNCHANGED <<config, upstream, anonymousPermits, now, limits, buckets, catalog, revocationList, issuerKeys, cachedAt, sessions, last>>

\* One of the fetches of refreshAll completes and its refresh method runs to
\* its end
InitialFetchCompletes(starter) ==
    /\ starter \in DOMAIN calls
    /\ calls[starter].pc = "refreshAll"
    /\ \E entry \in calls[starter].pending : \E response \in Responses(entry) :
          /\ Refreshed(entry, response)
          /\ calls' = [calls EXCEPT ![starter].pending = @ \ {entry}]
    /\ UNCHANGED <<config, upstream, refresh, anonymousPermits, now, limits, buckets, sessions, last>>

\* refreshAll has settled: startBackgroundRefresh resumes, calls setInterval
\* for the catalog and for the revocation list and returns
StartResumes(starter) ==
    /\ starter \in DOMAIN calls
    /\ calls[starter].pc = "refreshAll"
    /\ calls[starter].pending = {}
    /\ calls' = [calls EXCEPT ![starter].pc = "returned"]
    /\ refresh' = [refresh EXCEPT !.timers = @ \cup IntervalsOf(starter)]
    /\ UNCHANGED <<config, upstream, anonymousPermits, now, limits, buckets, catalog, revocationList, issuerKeys, cachedAt, sessions, last>>

\* stopBackgroundRefresh: clearInterval for every interval of
\* refreshIntervals, which is then emptied
StopBackgroundRefresh ==
    /\ refresh.started
    /\ ~refresh.stopped
    /\ refresh' = [refresh EXCEPT !.timers = {}, !.stopped = TRUE,
                                  !.firedSinceStop = FALSE]
    /\ UNCHANGED <<calls, config, upstream, anonymousPermits, now, limits, buckets, catalog, revocationList, issuerKeys, cachedAt, sessions, last>>

\* A scheduled interval fires and its refresh method starts a fetch
IntervalFires ==
    /\ \E timer \in refresh.timers \ refresh.pending :
          refresh' = [refresh EXCEPT !.pending = @ \cup {timer},
                                     !.firedSinceStop = refresh.stopped]
    /\ UNCHANGED <<calls, config, upstream, anonymousPermits, now, limits, buckets, catalog, revocationList, issuerKeys, cachedAt, sessions, last>>

\* The fetch an interval started completes
IntervalFetchCompletes ==
    /\ \E timer \in refresh.pending : \E response \in Responses(timer[2]) :
          /\ Refreshed(timer[2], response)
          /\ refresh' = [refresh EXCEPT !.pending = @ \ {timer}]
    /\ UNCHANGED <<calls, config, upstream, anonymousPermits, now, limits, buckets, sessions, last>>

NextLifecycle ==
    \/ \E starter \in Starters :
          \/ StartBegins(starter)
          \/ InitialFetchCompletes(starter)
          \/ StartResumes(starter)
    \/ StopBackgroundRefresh
    \/ IntervalFires
    \/ IntervalFetchCompletes

\* Calls of startBackgroundRefresh and stopBackgroundRefresh interleaved at
\* the await of the initial fetch
SpecLifecycle == InitLifecycle /\ [][NextLifecycle]_vars

-----------------------------------------------------------------------------
(* C39: nothing is scheduled after stop *)

\* C39: once stopBackgroundRefresh was called, and until the refresh is
\* started anew, no interval is scheduled and none has fired
C39_NothingScheduledAfterStop ==
    refresh.stopped => /\ refresh.timers = {}
                       /\ ~refresh.firedSinceStop

====
